---- MODULE Spec2Model ----
(***************************************************************************)
(* Daily-reminder desktop application, two implementations:               *)
(*   src/daily_reminder_qt61017.py    (PyQt6: MainWindow, dialogs)         *)
(*   src/daily_reminder-20250926.py   (Tkinter: DailyReminderApp)          *)
(* The model covers the order collections of the JSON document, the        *)
(* auto-sync pass, the status dialog, the control panel's working copy,    *)
(* the Excel import and the load/save of data.json.                        *)
(***************************************************************************)
EXTENDS Integers, Sequences, FiniteSets, TLC

\* ------------------------------------------------------------------ bounds
\* Largest number of order records a document may hold in its two collections
\* together (guards of the add and import actions).
MaxOrders == 2
\* Number of calendar days the clock runs through.
MaxDay == 2
\* Number of handlers that run after start-up (midnights not counted).
MaxSteps == 1
\* Longest order list of a document found in data.json at start-up.
MaxInitLen == 2

\* --------------------------------------------------------------- constants
ORDER_STATUS_PENDING == "pending"
ORDER_STATUS_MAKING == "making"
ORDER_STATUS_DONE == "done"
ORDER_STATUS_PAUSED == "paused"
ORDER_STATUS_CYCLE ==
    <<ORDER_STATUS_PENDING, ORDER_STATUS_MAKING, ORDER_STATUS_DONE, ORDER_STATUS_PAUSED>>
ORDER_STATUS_DISPLAY ==
    {ORDER_STATUS_PENDING, ORDER_STATUS_MAKING, ORDER_STATUS_DONE, ORDER_STATUS_PAUSED}

\* Order numbers and remarks the user types, the Excel sheet holds.
OrderNums == {"A", "B"}
Remarks == {"", "r"}

\* A field a dict does not have (dict.get then returns its default).
Absent == "<absent>"

\* ------------------------------------------------------------------- dates
Digits == <<"1", "2", "3", "4", "5", "6", "7", "8", "9">>
Days == 1..MaxDay

\* datetime.date.isoformat / QDate.toString("yyyy-MM-dd") of day n of the model's month.
IsoTable == [n \in 1..9 |-> "2025-01-0" \o Digits[n]]
isoformat(n) == IsoTable[n]

\* datetime.date.fromisoformat: the day, or 0 for ValueError.
IsoStrings == {IsoTable[n] : n \in 1..9}
DayOf == [s \in IsoStrings |-> CHOOSE n \in 1..9 : IsoTable[n] = s]
fromisoformat(s) == IF s \in IsoStrings THEN DayOf[s] ELSE 0

TBD == "TBD"
\* A key that is no ISO date (only a hand-edited data.json holds one).
BadDate == "2025/01/01"
IsoDates == {isoformat(n) : n \in Days}
DateKeys == IsoDates \cup {TBD, BadDate}

\* ----------------------------------------------------------------- records
\* A dict order record; a field that is Absent is a key the dict lacks.
DictRec(o, s, r, w) == [dict |-> TRUE, order |-> o, status |-> s, remark |-> r, work_order |-> w]
\* A legacy plain-string order.
StrRec(o) == [dict |-> FALSE, order |-> o, status |-> Absent, remark |-> Absent, work_order |-> Absent]

\* dict.get(field, default)
GetF(rec, field, default) == IF rec[field] = Absent THEN default ELSE rec[field]

\* item.get("order", "") if isinstance(item, dict) else str(item)
get_order_number(order) == IF order.dict THEN GetF(order, "order", "") ELSE order.order

\* ------------------------------------------------- collections (Python dict)
\* A collection is a dict date -> list, kept as the sequence of its entries in
\* insertion order (the order dict iteration follows).
HasKey(c, d) == \E i \in 1..Len(c) : c[i].date = d
KeyIdx(c, d) == CHOOSE i \in 1..Len(c) : c[i].date = d
GetList(c, d) == IF HasKey(c, d) THEN c[KeyIdx(c, d)].orders ELSE <<>>
SetList(c, d, l) ==
    IF HasKey(c, d)
    THEN [c EXCEPT ![KeyIdx(c, d)].orders = l]
    ELSE Append(c, [date |-> d, orders |-> l])
SetDefault(c, d) == IF HasKey(c, d) THEN c ELSE Append(c, [date |-> d, orders |-> <<>>])
DelKey(c, d) == SelectSeq(c, LAMBDA e : e.date # d)
Keys(c) == {c[i].date : i \in 1..Len(c)}
\* dict equality ignores insertion order.
AsMap(c) == {<<c[i].date, c[i].orders>> : i \in 1..Len(c)}
RECURSIVE CountOrders(_)
CountOrders(c) == IF c = <<>> THEN 0 ELSE Len(Head(c).orders) + CountOrders(Tail(c))

RemoveAt(l, i) == [j \in 1..(Len(l) - 1) |-> IF j < i THEN l[j] ELSE l[j + 1]]
OrderNumsOf(l) == {get_order_number(l[i]) : i \in 1..Len(l)}

\* --------------------------------------------------------------- documents
\* A document is a dict from top-level keys to values.
SHIP == "shipping_orders"
PRE == "pre_shipping_orders"
\* data.get(key, {})
Coll(doc, key) == IF key \in DOMAIN doc THEN doc[key] ELSE <<>>
Put(doc, key, val) == [k \in (DOMAIN doc) \cup {key} |-> IF k = key THEN val ELSE doc[k]]
EmptyDoc == [k \in {SHIP, PRE} |-> <<>>]
MkDoc(ship, pre) == [k \in {SHIP, PRE} |-> IF k = SHIP THEN ship ELSE pre]
\* The order collections of two documents are equal as dicts.
SameOrders(a, b) ==
    /\ AsMap(Coll(a, SHIP)) = AsMap(Coll(b, SHIP))
    /\ AsMap(Coll(a, PRE)) = AsMap(Coll(b, PRE))

\* ------------------------------------------- Qt: persistence (data_manager)
\* modules.data_manager is not among the sources; the two functions follow the
\* specification: loaded wholesale and merged against defaults for missing
\* keys, saved wholesale.
qt_load_data(file) == [k \in (DOMAIN file) \cup {SHIP, PRE} |-> IF k \in DOMAIN file THEN file[k] ELSE <<>>]
qt_save_data(d) == d

\* ------------------------------------------------- Qt: auto-sync (one pass)
\* The date key is neither "TBD", nor malformed, nor after today.
DateIsDue(date_str, t) ==
    /\ date_str # TBD
    /\ fromisoformat(date_str) # 0
    /\ ~(fromisoformat(date_str) > t)

\* Mutant: a paused record is no longer kept back.
IsRetainedNoPause(pre_order) ==
    IF pre_order.dict
    THEN GetF(pre_order, "status", ORDER_STATUS_PENDING) \notin {ORDER_STATUS_DONE, ORDER_STATUS_PAUSED}
    ELSE TRUE

\* Mutant: a legacy plain string is treated like a done record.
IsRetainedDropsLegacy(pre_order) ==
    IF pre_order.dict
    THEN GetF(pre_order, "status", ORDER_STATUS_PENDING) # ORDER_STATUS_DONE
    ELSE FALSE

\* The branches of the loop body that append the record to paused_orders:
\* paused, any status but done, legacy plain string.
IsRetained(pre_order) ==
    IF pre_order.dict
    THEN LET order_status == GetF(pre_order, "status", ORDER_STATUS_PENDING)
         IN  order_status = ORDER_STATUS_PAUSED \/ order_status # ORDER_STATUS_DONE
    ELSE TRUE

\* any(... == order_num for ship_order in shipping_orders)
ExistsInShipping(shipping_orders, order_num) ==
    \E i \in 1..Len(shipping_orders) : get_order_number(shipping_orders[i]) = order_num

\* The shipping record auto-sync appends for a done pre-order.
AutoSyncRecord(pre_order) ==
    LET remark == GetF(pre_order, "remark", "")
        \* the two literals stand for " [自动同步]" and "[预备订单自动同步]"
        auto_remark == IF remark # "" THEN remark \o " [auto-sync]" ELSE "[pre-order auto-sync]"
    IN  DictRec(GetF(pre_order, "order", ""), Absent, auto_remark, Absent)

\* The inner loop over the records of one date.
RECURSIVE SyncOrders(_, _, _, _, _)
SyncOrders(date_pre_orders, i, shipping_orders, paused_orders, transferred_count) ==
    IF i > Len(date_pre_orders)
    THEN [ship |-> shipping_orders, kept |-> paused_orders, count |-> transferred_count]
    ELSE LET pre_order == date_pre_orders[i]
         IN  IF IsRetained(pre_order)
             THEN SyncOrders(date_pre_orders, i + 1, shipping_orders,
                             Append(paused_orders, pre_order), transferred_count)
             ELSE IF ExistsInShipping(shipping_orders, GetF(pre_order, "order", ""))
             THEN SyncOrders(date_pre_orders, i + 1, shipping_orders,
                             paused_orders, transferred_count)
             ELSE SyncOrders(date_pre_orders, i + 1,
                             Append(shipping_orders, AutoSyncRecord(pre_order)),
                             paused_orders, transferred_count + 1)

\* The outer loop over pre_orders.items(): acc is [data, remove, count].
RECURSIVE SyncDates(_, _, _, _)
SyncDates(pre_orders, i, t, acc) ==
    IF i > Len(pre_orders) THEN acc
    ELSE LET date_str == pre_orders[i].date
             date_pre_orders == pre_orders[i].orders
         IN  IF ~DateIsDue(date_str, t)
             THEN SyncDates(pre_orders, i + 1, t, acc)
             ELSE IF date_pre_orders = <<>>
             THEN SyncDates(pre_orders, i + 1, t, [acc EXCEPT !.remove = @ \cup {date_str}])
             ELSE LET \* pre_orders[date_str] = paused_orders, or the date is to be removed
                      Kept(d1, r) ==
                          [data |-> IF r.kept # <<>>
                                    THEN Put(d1, PRE, SetList(Coll(d1, PRE), date_str, r.kept))
                                    ELSE d1,
                           remove |-> IF r.kept # <<>> THEN acc.remove
                                      ELSE acc.remove \cup {date_str},
                           count |-> acc.count + r.count]
                      Shipped(ship0, r) ==
                          Kept(Put(acc.data, SHIP, SetList(ship0, date_str, r.ship)), r)
                      \* shipping_orders = ...setdefault(date_str, [])
                      Synced(ship0) ==
                          Shipped(ship0, SyncOrders(date_pre_orders, 1, GetList(ship0, date_str), <<>>, 0))
                  IN  SyncDates(pre_orders, i + 1, t,
                                Synced(SetDefault(Coll(acc.data, SHIP), date_str)))

\* MainWindow.auto_sync_pre_to_shipping on document d with today t:
\* the document after the pass and transferred_count.
auto_sync_pre_to_shipping(d, t) ==
    LET \* for date_str in dates_to_remove: del pre_orders[date_str]
        Removed(acc) ==
            [data |-> Put(acc.data, PRE,
                          SelectSeq(Coll(acc.data, PRE), LAMBDA e : e.date \notin acc.remove)),
             count |-> acc.count]
    IN  IF Coll(d, PRE) = <<>> THEN [data |-> d, count |-> 0]
        ELSE Removed(SyncDates(Coll(d, PRE), 1, t, [data |-> d, remove |-> {}, count |-> 0]))

\* A handler's working state: the in-memory document and data.json.
St(d, f) == [data |-> d, disk |-> f]

\* One auto-sync pass inside a handler: save_data only if transferred_count > 0.
AutoSyncStep(st, t) ==
    LET Saved(r) ==
            [data |-> r.data,
             disk |-> IF r.count > 0 THEN qt_save_data(r.data) ELSE st.disk]
    IN  Saved(auto_sync_pre_to_shipping(st.data, t))

\* The rows update_order_tables puts into pre_table: (date key, order number).
TableRows(d) ==
    LET c == Coll(d, PRE)
    IN  UNION {{<<c[i].date, get_order_number(c[i].orders[j])>> : j \in 1..Len(c[i].orders)} : i \in 1..Len(c)}

\* Mutant: the tables are rebuilt without the auto-sync pass.
update_order_tables_nosync(st, t) == st

\* MainWindow.update_order_tables: auto-sync, then both tables rebuilt from self.data.
update_order_tables(st, t) == AutoSyncStep(st, t)

\* ------------------------------------------------------ Qt: Excel import
\* A data row of a sheet: the cells of columns 1..3; "" is an empty cell.
\* The type keyword "发货" and type cells with and without it
\* ("预备发货" contains it, "预备" does not).
SHIPPING_WORD == "fahuo"
ExcelDates == IsoDates \cup {"", "someday"}
ExcelTypes == {"", SHIPPING_WORD, "yubei fahuo", "yubei"}
\* "发货" in typ
ContainsShippingWord(typ) == typ \in {SHIPPING_WORD, "yubei fahuo"}
ExcelRow(d, o, typ) == [date |-> d, order |-> o, typ |-> typ]

\* date_parse(date_str).date().isoformat(): the ISO date, or "" for ValueError.
ParseExcelDate(date_cell) == IF fromisoformat(date_cell) # 0 THEN date_cell ELSE ""

\* Mutant: a row whose type cell is empty goes to the pre-shipping orders.
RowKeyNoDefault(row) == IF ContainsShippingWord(row.typ) THEN SHIP ELSE PRE

\* The collection a row goes to; typ defaults to "发货" when the cell is empty.
RowKey(row) ==
    LET typ == IF row.typ # "" THEN row.typ ELSE SHIPPING_WORD
    IN  IF ContainsShippingWord(typ) THEN SHIP ELSE PRE

\* The Qt membership test: order numbers of dict records and plain strings alike.
qt_row_is_new(lst, order) == order \notin OrderNumsOf(lst)

\* import_orders_from_excel over the rows of the sheets: [data, count].
RECURSIVE qt_import_orders_from_excel(_, _, _)
qt_import_orders_from_excel(d, rows, count) ==
    IF rows = <<>> THEN [data |-> d, count |-> count]
    ELSE LET row == Head(rows)
             \* data[key].setdefault(date_iso, []), then the membership test
             Insert(key, date_iso, c) ==
                 IF qt_row_is_new(GetList(c, date_iso), row.order)
                 THEN qt_import_orders_from_excel(
                          Put(d, key, SetList(c, date_iso, Append(GetList(c, date_iso), StrRec(row.order)))),
                          Tail(rows), count + 1)
                 ELSE qt_import_orders_from_excel(Put(d, key, c), Tail(rows), count)
             Row(key, date_iso) ==
                 IF row.date = "" \/ date_iso = "" \/ row.order = ""
                 THEN qt_import_orders_from_excel(d, Tail(rows), count)
                 ELSE Insert(key, date_iso, SetDefault(Coll(d, key), date_iso))
         IN  Row(RowKey(row), ParseExcelDate(row.date))

\* The sheets an import may find in the folder.
ExcelSheets ==
    {<<ExcelRow(d, o, typ)>> : d \in IsoDates, o \in OrderNums, typ \in ExcelTypes}
    \cup {<<ExcelRow("", "A", "")>>, <<ExcelRow("someday", "A", "")>>, <<ExcelRow(isoformat(1), "", "")>>}

WithinBound(d) == CountOrders(Coll(d, SHIP)) + CountOrders(Coll(d, PRE)) <= MaxOrders

\* ------------------------------------------------------------------- state
VARIABLES
    today,       \* datetime.date.today(), a day number
    data,        \* MainWindow.data
    disk,        \* the document in data.json (Qt)
    pre_table,   \* rows of MainWindow.pre_table: (date key, order number)
    cpOpen,      \* a ControlPanelDialog is executing
    cpData,      \* ControlPanelDialog.data
    iodOpen,     \* an IncompleteOrdersDialog is executing
    iodData,     \* IncompleteOrdersDialog.data
    iodBoxes,    \* IncompleteOrdersDialog.order_checkboxes: order number -> row date
    last,        \* the handler that ran last, with its inputs
    steps,       \* handlers run since start-up
    tkData,      \* DailyReminderApp.data (Tk)
    tkAlias,     \* top-level keys whose value in tkData is the very object default_data holds
    tkDefault,   \* the module-level default_data (Tk), as it is now
    tkFile,      \* data.json (Tk)
    tkBackup,    \* data.json.backup (Tk)
    tkLast,      \* the Tk handler that ran last, with the outcome of its save_data
    tkSteps,     \* Tk handlers run since start-up
    rtDoc,       \* the document handed to save_data
    rtOut,       \* the document load_data returned
    rtPc,        \* where the save-then-load sequence stands
    rtRaised,    \* an exception left the save_data call of the sequence
    trAvail,     \* PYSTRAY_AVAILABLE and PIL_AVAILABLE (Tk)
    trWindow,    \* state of the Tk root window
    trIcon,      \* self.tray_icon_obj: "none", or the icon "running" on the tray thread
    trPc,        \* where the tray thread stands inside a menu handler
    trAfter,     \* deiconify callbacks pending on the Tk event loop
    trCalls,     \* operations made on the Tk root so far, in order, each with its thread
    trCount,     \* window closes handled so far
    tmEnabled,   \* self.data["reminder_enabled"] (Tk)
    tmId,        \* self.reminder_after_id: 0 for None, else the id root.after returned
    tmPending,   \* ids of the schedule_reminder callbacks pending on the Tk event loop
    tmCalls,     \* calls of schedule_reminder so far
    tmPc,        \* "box" while save_all_settings shows its message box, else "idle"
    imIn,        \* the document handed to import_orders_from_excel
    imRows,      \* the data rows of the sheets in the import folder
    imOut,       \* the document after the import and the returned count
    imPc,        \* "start", or the implementation that ran: "qt", "tk"
    nfDay,       \* QDate.currentDate() / datetime.date.today() seen by the Qt timers, a day number
    nfNow,       \* the current time of that day, in minutes
    nfTask,      \* the task under self.data["daily_tasks"][day 1]
    nfState,     \* MainWindow.task_notification_state: key -> index of its state dict in nfObjs
    nfObjs,      \* the state dicts created so far
    nfStack,     \* handlers waiting in msg_box.exec() of prompt_task_completion, innermost last
    nfPrompts,   \* completion prompts opened since the task's time was last set
    crHas,       \* self.data has the key "custom_reminders"
    crList,      \* self.data["custom_reminders"]
    crDlg,       \* the CustomReminderDialog that is executing, if any
    crShown,     \* the bubbles check_custom_reminders showed: (reminder, day)
    qcInterval,  \* self.data["reminder_interval"] (Qt), in minutes
    qcLeft,      \* minutes until reminder_timer times out next
    ctList,      \* self.data["custom_reminders"] (Tk)
    ctTimers,    \* self.custom_reminder_timers: index -> timer id, 0 for None
    ctPending,   \* trigger_custom_reminder callbacks pending on the Tk event loop
    ctNextId,    \* the id the next root.after returns
    ctLast       \* the reminder handler that ran last, and whether its save_data raised

qtVars == <<today, data, disk, pre_table, cpOpen, cpData, iodOpen, iodData, iodBoxes, last, steps>>
tkVars == <<tkData, tkAlias, tkDefault, tkFile, tkBackup, tkLast, tkSteps>>
rtVars == <<rtDoc, rtOut, rtPc, rtRaised>>
trVars == <<trAvail, trWindow, trIcon, trPc, trAfter, trCalls, trCount>>
tmVars == <<tmEnabled, tmId, tmPending, tmCalls, tmPc>>
imVars == <<imIn, imRows, imOut, imPc>>
nfVars == <<nfDay, nfNow, nfTask, nfState, nfObjs, nfStack, nfPrompts, crHas, crList, crDlg, crShown>>
qcVars == <<qcInterval, qcLeft>>
ctVars == <<ctList, ctTimers, ctPending, ctNextId, ctLast>>
auxVars == <<trVars, tmVars, imVars, nfVars, qcVars, ctVars>>
vars == <<qtVars, tkVars, rtVars, auxVars>>

Op(name) ==
    [op |-> name, order |-> "", status |-> "", new_date |-> "", from |-> "", row |-> <<>>, ticked |-> {}]

\* The Tk program is not running.
TkIdle ==
    /\ tkData = EmptyDoc
    /\ tkAlias = {}
    /\ tkDefault = EmptyDoc
    /\ tkFile = EmptyDoc
    /\ tkBackup = EmptyDoc
    /\ tkLast = Op("idle")
    /\ tkSteps = 0

\* No save-then-load sequence is under way.
RtIdle ==
    /\ rtDoc = EmptyDoc
    /\ rtOut = EmptyDoc
    /\ rtPc = "idle"
    /\ rtRaised = FALSE

\* The Qt program is not running.
QtIdle ==
    /\ today = 1
    /\ data = EmptyDoc
    /\ disk = EmptyDoc
    /\ pre_table = {}
    /\ cpOpen = FALSE
    /\ cpData = EmptyDoc
    /\ iodOpen = FALSE
    /\ iodData = EmptyDoc
    /\ iodBoxes = {}
    /\ last = Op("idle")
    /\ steps = 0

\* The tray icon of the Tk program is not in use.
TrIdle ==
    /\ trAvail = FALSE
    /\ trWindow = "shown"
    /\ trIcon = "none"
    /\ trPc = "idle"
    /\ trAfter = 0
    /\ trCalls = <<>>
    /\ trCount = 0

\* No reminder timer of the Tk program is in use.
TmIdle ==
    /\ tmEnabled = FALSE
    /\ tmId = 0
    /\ tmPending = {}
    /\ tmCalls = 0
    /\ tmPc = "idle"

\* No import of its own is under way.
ImIdle ==
    /\ imIn = EmptyDoc
    /\ imRows = <<>>
    /\ imOut = [data |-> EmptyDoc, count |-> 0]
    /\ imPc = "idle"

\* No timer of the Qt main window is running and no reminder is defined.
NfIdle ==
    /\ nfDay = 1
    /\ nfNow = 0
    /\ nfTask = [id |-> "", time |-> 0, completed |-> FALSE]
    /\ nfState = <<>>
    /\ nfObjs = <<>>
    /\ nfStack = <<>>
    /\ nfPrompts = 0
    /\ crHas = FALSE
    /\ crList = <<>>
    /\ crDlg = [open |-> FALSE, shared |-> FALSE, list |-> <<>>]
    /\ crShown = {}

\* The reminder timer of the Qt main window is not timed.
QcIdle ==
    /\ qcInterval = 0
    /\ qcLeft = 0

\* No custom reminder of the Tk program exists.
CtIdle ==
    /\ ctList = <<>>
    /\ ctTimers = <<>>
    /\ ctPending = {}
    /\ ctNextId = 1
    /\ ctLast = [op |-> "init", raised |-> FALSE]

\* Nothing but the order handling is running.
AuxIdle == TrIdle /\ TmIdle /\ ImIdle /\ NfIdle /\ QcIdle /\ CtIdle

NoDialog == ~cpOpen /\ ~iodOpen

\* A handler runs: one more step.
Step == steps < MaxSteps /\ steps' = steps + 1
\* Dialogs open and days pass only while a handler may still run.
MayStep == steps < MaxSteps

\* ------------------------------------------------- Qt: main-window handlers
\* Index of the first record of lst with that order number, 0 when none.
FirstIndex(lst, order_num) ==
    IF \E i \in 1..Len(lst) : get_order_number(lst[i]) = order_num
    THEN CHOOSE i \in 1..Len(lst) :
            /\ get_order_number(lst[i]) = order_num
            /\ \A j \in 1..(i - 1) : get_order_number(lst[j]) # order_num
    ELSE 0

\* OrderStatusDialog.get_result: the checked status button and either "TBD"
\* or the date of the date editor.
StatusDialogResults == ORDER_STATUS_DISPLAY \X (IsoDates \cup {TBD})

\* Mutant: the new status is not written into a dict record.
WithStatusKept(item, new_status) ==
    IF item.dict THEN item ELSE DictRec(item.order, new_status, Absent, Absent)

\* The record the status dialog leaves: a dict keeps its fields, a legacy
\* string becomes {"order", "status"}.
WithStatus(item, new_status) ==
    IF item.dict THEN [item EXCEPT !.status = new_status]
    ELSE DictRec(item.order, new_status, Absent, Absent)

\* The accepted branch of toggle_pre_order_status up to save_data.
ToggleMutation(d, date, order_index, new_status, new_date) ==
    LET \* pre_orders.setdefault(new_date, []).append(current_item)
        Moved(pre1, current_item) ==
            Put(d, PRE, SetList(pre1, new_date, Append(GetList(pre1, new_date), current_item)))
        \* pre_orders[date].pop(order_index); an emptied date is deleted
        Popped(pre_orders, popped, current_item) ==
            Moved(IF popped = <<>> THEN DelKey(pre_orders, date)
                  ELSE SetList(pre_orders, date, popped), current_item)
        Changed(pre_orders, lst) ==
            IF new_date # date
            THEN Popped(pre_orders, RemoveAt(lst, order_index), WithStatus(lst[order_index], new_status))
            ELSE Put(d, PRE, SetList(pre_orders, date,
                                     [lst EXCEPT ![order_index] = WithStatus(lst[order_index], new_status)]))
    IN  Changed(Coll(d, PRE), GetList(Coll(d, PRE), date))

\* The state a handler leaves in the main window.
Leave(st, op) ==
    /\ data' = st.data
    /\ disk' = st.disk
    /\ last' = op

\* MainWindow.toggle_pre_order_status(row, col): the row's order is not in
\* self.data, or the status dialog is cancelled.
TogglePreOrderStatusNoChange ==
    /\ UNCHANGED <<tkVars, rtVars, auxVars>>
    /\ Step
    /\ NoDialog
    /\ pre_table # {}
    /\ last' = Op("toggle_unchanged")
    /\ UNCHANGED <<today, data, disk, pre_table, cpOpen, cpData, iodOpen, iodData, iodBoxes>>

\* MainWindow.toggle_pre_order_status(row, col) with the status dialog accepted.
TogglePreOrderStatus ==
    /\ UNCHANGED <<tkVars, rtVars, auxVars>>
    /\ Step
    /\ NoDialog
    /\ \E row \in pre_table, res \in StatusDialogResults :
         \E lst \in {GetList(Coll(data, PRE), row[1])} :
         \E order_index \in {FirstIndex(lst, row[2])} :
             /\ HasKey(Coll(data, PRE), row[1])
             /\ order_index # 0
             \* the mutation, save_data, auto_sync_pre_to_shipping, update_order_tables
             /\ \E d1 \in {ToggleMutation(data, row[1], order_index, res[1], res[2])} :
                \E st3 \in {update_order_tables(AutoSyncStep(St(d1, qt_save_data(d1)), today), today)} :
                    /\ Leave(st3, [op |-> "toggle_accepted", order |-> row[2],
                                   status |-> res[1], new_date |-> res[2],
                                   row |-> row, ticked |-> {},
                                   from |-> IF lst[order_index].dict
                                            THEN GetF(lst[order_index], "status", ORDER_STATUS_PENDING)
                                            ELSE ORDER_STATUS_PENDING])
                    /\ pre_table' = TableRows(st3.data)
    /\ UNCHANGED <<today, cpOpen, cpData, iodOpen, iodData, iodBoxes>>

\* MainWindow.update_order_tables called on its own (update_all_displays).
UpdateOrderTables ==
    /\ UNCHANGED <<tkVars, rtVars, auxVars>>
    /\ Step
    /\ \E st \in {update_order_tables(St(data, disk), today)} :
           /\ Leave(st, Op("update_order_tables"))
           /\ pre_table' = TableRows(st.data)
    /\ UNCHANGED <<today, cpOpen, cpData, iodOpen, iodData, iodBoxes>>

\* MainWindow.check_reminders, fired by reminder_timer (also while a modal
\* dialog runs its event loop).
CheckReminders ==
    /\ UNCHANGED <<tkVars, rtVars, auxVars>>
    /\ Step
    /\ \E rows \in ExcelSheets :
         \E r \in {qt_import_orders_from_excel(data, rows, 0)} :
             /\ WithinBound(r.data)
             /\ IF r.count > 0
                THEN \E st \in {update_order_tables(St(r.data, qt_save_data(r.data)), today)} :
                         /\ Leave(st, Op("check_reminders"))
                         /\ pre_table' = TableRows(st.data)
                ELSE /\ Leave(St(r.data, disk), Op("check_reminders"))
                     /\ UNCHANGED pre_table
    /\ UNCHANGED <<today, cpOpen, cpData, iodOpen, iodData, iodBoxes>>

\* MainWindow.immediate_reminder
ImmediateReminder ==
    /\ UNCHANGED <<tkVars, rtVars, auxVars>>
    /\ Step
    /\ NoDialog
    /\ \E rows \in ExcelSheets :
         \E r \in {qt_import_orders_from_excel(data, rows, 0)} :
         \E file \in {IF r.count > 0 THEN qt_save_data(r.data) ELSE disk} :
         \E st \in {update_order_tables(St(qt_load_data(file), file), today)} :
             /\ WithinBound(r.data)
             /\ Leave(st, Op("immediate_reminder"))
             /\ pre_table' = TableRows(st.data)
    /\ UNCHANGED <<today, cpOpen, cpData, iodOpen, iodData, iodBoxes>>

\* Midnight passes.
Tick ==
    /\ UNCHANGED <<tkVars, rtVars, auxVars>>
    /\ MayStep
    /\ today < MaxDay
    /\ today' = today + 1
    /\ last' = Op("tick")
    /\ UNCHANGED <<steps, data, disk, pre_table, cpOpen, cpData, iodOpen, iodData, iodBoxes>>

\* ------------------------------------------------ Qt: ControlPanelDialog
\* MainWindow.open_control_panel up to dialog.exec(): the dialog works on a
\* deep copy of the main window's document.
OpenControlPanel ==
    /\ UNCHANGED <<tkVars, rtVars, auxVars>>
    /\ MayStep
    /\ NoDialog
    /\ cpOpen' = TRUE
    /\ cpData' = data
    /\ last' = Op("open_control_panel")
    /\ UNCHANGED <<today, data, disk, pre_table, iodOpen, iodData, iodBoxes, steps>>

\* The tail of the dialog's order handlers: save_data(self.data) of the
\* dialog's copy, then self.parent().update_order_tables().
CpLeave(cp1, op) ==
    \E st \in {update_order_tables(St(data, qt_save_data(cp1)), today)} :
        /\ cpData' = cp1
        /\ Leave(st, op)
        /\ pre_table' = TableRows(st.data)

\* The handler returned after a warning box: only the dialog's copy changed.
CpReturn(cp1, op) ==
    /\ cpData' = cp1
    /\ last' = op
    /\ UNCHANGED <<data, disk, pre_table>>

\* Mutant: the new pre-order is stored without a status.
NewPreOrderNoStatus(order_num, work_order, remark) == DictRec(order_num, Absent, remark, work_order)

\* The record add_pre_order appends.
NewPreOrder(order_num, work_order, remark) == DictRec(order_num, ORDER_STATUS_PENDING, remark, work_order)

\* The record add_shipping_order appends.
NewShippingOrder(order_num, remark) == DictRec(order_num, Absent, remark, Absent)

\* ControlPanelDialog.add_shipping_order
CpAddShippingOrder ==
    /\ UNCHANGED <<tkVars, rtVars, auxVars>>
    /\ Step
    /\ cpOpen
    /\ \E date_str \in IsoDates, order_num \in OrderNums, remark \in Remarks :
         \E c \in {SetDefault(Coll(cpData, SHIP), date_str)} :
         \E shipping_orders \in {GetList(c, date_str)} :
             IF \E i \in 1..Len(shipping_orders) : get_order_number(shipping_orders[i]) = order_num
             THEN CpReturn(Put(cpData, SHIP, c), Op("add_shipping_order"))
             ELSE \E cp1 \in {Put(cpData, SHIP, SetList(c, date_str,
                                  Append(shipping_orders, NewShippingOrder(order_num, remark))))} :
                      /\ WithinBound(cp1)
                      /\ CpLeave(cp1, [Op("add_shipping_order") EXCEPT !.order = order_num, !.new_date = date_str])
    /\ UNCHANGED <<today, cpOpen, iodOpen, iodData, iodBoxes>>

\* ControlPanelDialog.add_pre_order
CpAddPreOrder ==
    /\ UNCHANGED <<tkVars, rtVars, auxVars>>
    /\ Step
    /\ cpOpen
    /\ \E date_str \in IsoDates \cup {TBD}, order_num \in OrderNums, remark \in Remarks :
         \E c \in {SetDefault(Coll(cpData, PRE), date_str)} :
         \E pre_orders \in {GetList(c, date_str)} :
             IF \E i \in 1..Len(pre_orders) : get_order_number(pre_orders[i]) = order_num
             THEN CpReturn(Put(cpData, PRE, c), Op("add_pre_order"))
             ELSE \E cp1 \in {Put(cpData, PRE, SetList(c, date_str,
                                  Append(pre_orders, NewPreOrder(order_num, "", remark))))} :
                      /\ WithinBound(cp1)
                      /\ CpLeave(cp1, [Op("add_pre_order") EXCEPT !.order = order_num, !.new_date = date_str])
    /\ UNCHANGED <<today, cpOpen, iodOpen, iodData, iodBoxes>>

\* find_order_in_data(order_num) without a date, and the search loop of
\* toggle_pre_control_status: the first match over the dates in insertion
\* order, as [date, index]; index 0 when there is none.
RECURSIVE FindOrder(_, _, _)
FindOrder(c, k, order_num) ==
    IF k > Len(c) THEN [date |-> "", index |-> 0]
    ELSE IF FirstIndex(c[k].orders, order_num) # 0
         THEN [date |-> c[k].date, index |-> FirstIndex(c[k].orders, order_num)]
         ELSE FindOrder(c, k + 1, order_num)

find_order_in_data(d, order_num) == FindOrder(Coll(d, PRE), 1, order_num)

\* parse_order_data(order)["status"]
ParsedStatus(order) ==
    IF order.dict THEN GetF(order, "status", ORDER_STATUS_PENDING) ELSE ORDER_STATUS_PENDING

\* ControlPanelDialog.edit_pre_order for the selected row of pre_control_table.
CpEditPreOrder ==
    /\ UNCHANGED <<tkVars, rtVars, auxVars>>
    /\ Step
    /\ cpOpen
    /\ \E row \in TableRows(cpData), new_order_num \in OrderNums, new_remark \in Remarks :
         \E all_pre_orders \in {Coll(cpData, PRE)} :
         \E found \in {find_order_in_data(cpData, row[2])} :
             IF new_order_num # row[2]
                /\ \E i \in 1..Len(all_pre_orders) : new_order_num \in OrderNumsOf(all_pre_orders[i].orders)
             THEN CpReturn(cpData, Op("edit_pre_order"))
             ELSE \E lst \in {GetList(all_pre_orders, found.date)} :
                  \E old_status \in {IF found.index # 0 THEN ParsedStatus(lst[found.index]) ELSE ""} :
                  \E edited \in {DictRec(new_order_num, old_status, new_remark, "")} :
                      /\ found.index # 0
                      /\ CpLeave(Put(cpData, PRE, SetList(all_pre_orders, found.date,
                                                          [lst EXCEPT ![found.index] = edited])),
                                 [Op("edit_pre_order") EXCEPT !.order = new_order_num,
                                     !.new_date = found.date, !.from = old_status,
                                     !.row = row])
    /\ UNCHANGED <<today, cpOpen, iodOpen, iodData, iodBoxes>>

\* ControlPanelDialog.toggle_pre_control_status(row, col) with the status
\* dialog accepted.
CpTogglePreControlStatus ==
    /\ UNCHANGED <<tkVars, rtVars, auxVars>>
    /\ Step
    /\ cpOpen
    /\ \E row \in TableRows(cpData), res \in StatusDialogResults :
         \E found \in {find_order_in_data(cpData, row[2])} :
             /\ found.index # 0
             /\ CpLeave(ToggleMutation(cpData, found.date, found.index, res[1], res[2]),
                        [op |-> "toggle_pre_control_status", order |-> row[2],
                         status |-> res[1], new_date |-> res[2],
                         row |-> row, ticked |-> {},
                         from |-> ParsedStatus(GetList(Coll(cpData, PRE), found.date)[found.index])])
    /\ UNCHANGED <<today, cpOpen, iodOpen, iodData, iodBoxes>>

\* Mutant: a missing order collection is not created.
EnsureCollectionsNot(d) == d

\* if "pre_shipping_orders" not in d: d[...] = {}, likewise "shipping_orders"
EnsureCollections(d) == [k \in (DOMAIN d) \cup {SHIP, PRE} |-> IF k \in DOMAIN d THEN d[k] ELSE <<>>]

\* ControlPanelDialog.get_data: the collections are ensured and a deep copy
\* of self.data is returned (the settings widgets touch no order collection).
get_data(d) == EnsureCollections(d)

\* ControlPanelDialog.save_and_accept: the document handed to save_data.
save_and_accept(d) ==
    LET Restored(self, updated) ==
            IF \/ CountOrders(Coll(updated, PRE)) < CountOrders(Coll(self, PRE))
               \/ CountOrders(Coll(updated, SHIP)) < CountOrders(Coll(self, SHIP))
            THEN Put(Put(updated, PRE, Coll(self, PRE)), SHIP, Coll(self, SHIP))
            ELSE updated
        Checked(self) == Restored(self, EnsureCollections(get_data(self)))
    IN  Checked(EnsureCollections(d))

\* save_and_accept, then the accepted branch of open_control_panel:
\* self.data = dialog.get_data(), save_data, update_all_displays.
CpSaveAndAccept ==
    /\ UNCHANGED <<tkVars, rtVars, auxVars>>
    /\ cpOpen
    /\ cpOpen' = FALSE
    /\ cpData' = EmptyDoc
    /\ \E saved \in {save_and_accept(cpData)} :
       \E st \in {update_order_tables(St(get_data(saved), qt_save_data(get_data(saved))), today)} :
           /\ Leave(st, Op("save_and_accept"))
           /\ pre_table' = TableRows(st.data)
    /\ UNCHANGED <<today, iodOpen, iodData, iodBoxes, steps>>

\* The dialog is closed without saving.
CpReject ==
    /\ UNCHANGED <<tkVars, rtVars, auxVars>>
    /\ cpOpen
    /\ cpOpen' = FALSE
    /\ cpData' = EmptyDoc
    /\ last' = Op("cp_reject")
    /\ UNCHANGED <<today, data, disk, pre_table, iodOpen, iodData, iodBoxes, steps>>

\* -------------------------------------------- Qt: IncompleteOrdersDialog
\* refresh_orders: one checkbox per order number among the records due today
\* whose status is not done, as (order number, date).
IncompleteBoxes(d, t) ==
    LET lst == GetList(Coll(d, PRE), isoformat(t))
    IN  {<<get_order_number(lst[i]), isoformat(t)>> :
            i \in {j \in 1..Len(lst) : ParsedStatus(lst[j]) # ORDER_STATUS_DONE}}

\* MainWindow.check_and_show_incomplete_orders up to dialog.exec().
CheckAndShowIncompleteOrders ==
    /\ UNCHANGED <<tkVars, rtVars, auxVars>>
    /\ MayStep
    /\ NoDialog
    /\ \E d \in {qt_load_data(disk)} :
       \E boxes \in {IncompleteBoxes(d, today)} :
           /\ data' = d
           /\ iodOpen' = (boxes # {})
           /\ iodData' = IF boxes # {} THEN d ELSE EmptyDoc
           /\ iodBoxes' = boxes
    /\ last' = Op("check_and_show_incomplete_orders")
    /\ UNCHANGED <<today, disk, pre_table, cpOpen, cpData, steps>>

\* The record confirm_orders leaves for a checked order.
ConfirmedRecord(order_info) ==
    IF order_info.dict THEN [order_info EXCEPT !.status = ORDER_STATUS_DONE]
    ELSE DictRec(order_info.order, ORDER_STATUS_DONE, "", Absent)

\* The loop of confirm_orders over the checked boxes: [data, count].
RECURSIVE ConfirmChecked(_, _, _)
ConfirmChecked(d, checked, updated_count) ==
    IF checked = {} THEN [data |-> d, count |-> updated_count]
    ELSE LET Update(box, lst, i) ==
                 IF i # 0
                 THEN ConfirmChecked(Put(d, PRE, SetList(Coll(d, PRE), box[2],
                                            [lst EXCEPT ![i] = ConfirmedRecord(lst[i])])),
                                     checked \ {box}, updated_count + 1)
                 ELSE ConfirmChecked(d, checked \ {box}, updated_count)
             Find(box, lst) == Update(box, lst, FirstIndex(lst, box[1]))
             Box(box) == Find(box, GetList(Coll(d, PRE), box[2]))
         IN  Box(CHOOSE b \in checked : TRUE)

\* IncompleteOrdersDialog.confirm_orders with at least one box checked; when
\* no box is left the dialog accepts and check_and_show_incomplete_orders
\* reloads and refreshes once more.
IodConfirmOrders ==
    /\ UNCHANGED <<tkVars, rtVars, auxVars>>
    /\ Step
    /\ iodOpen
    /\ \E checked \in (SUBSET iodBoxes) \ {{}} :
         \E r \in {ConfirmChecked(iodData, checked, 0)} :
         \E file \in {qt_save_data(r.data)} :
         \E st1 \in {update_order_tables(St(qt_load_data(file), file), today)} :
         \E boxes \in {IncompleteBoxes(r.data, today)} :
         \E st2 \in {IF boxes = {}
                      THEN update_order_tables(St(qt_load_data(st1.disk), st1.disk), today)
                      ELSE st1} :
             /\ r.count > 0
             /\ iodData' = IF boxes = {} THEN EmptyDoc ELSE r.data
             /\ iodBoxes' = boxes
             /\ iodOpen' = (boxes # {})
             /\ Leave(st2, Op("confirm_orders"))
             /\ pre_table' = TableRows(st2.data)
    /\ UNCHANGED <<today, cpOpen, cpData>>

\* The dialog is closed ("later"); check_and_show_incomplete_orders reloads.
IodClose ==
    /\ UNCHANGED <<tkVars, rtVars, auxVars>>
    /\ iodOpen
    /\ iodOpen' = FALSE
    /\ iodBoxes' = {}
    /\ \E st \in {update_order_tables(St(qt_load_data(disk), disk), today)} :
           /\ Leave(st, Op("iod_close"))
           /\ pre_table' = TableRows(st.data)
    /\ iodData' = EmptyDoc
    /\ UNCHANGED <<today, cpOpen, cpData, steps>>

\* ------------------------------------------------------------ Qt: start-up
\* Documents data.json may hold when the program starts: the records a
\* document may hold (all four statuses, a remark, a dict without a status
\* field, a legacy plain string), under any date key.
InitRecs ==
    {DictRec(o, st, "", Absent) : o \in OrderNums, st \in ORDER_STATUS_DISPLAY}
    \cup {DictRec("A", ORDER_STATUS_DONE, "r", ""), DictRec("A", Absent, "", ""), StrRec("A")}
InitLists == UNION {[1..n -> InitRecs] : n \in 0..MaxInitLen}
InitPres == {<<>>} \cup {<<[date |-> d, orders |-> l]>> : d \in DateKeys, l \in InitLists}
InitShips ==
    {<<>>} \cup {<<[date |-> d, orders |-> <<r>>]>> :
                    d \in IsoDates, r \in {StrRec("A"), DictRec("A", Absent, "", Absent)}}
InitDocs == {doc \in {MkDoc(ship, pre) : ship \in InitShips, pre \in InitPres} : WithinBound(doc)}

\* MainWindow.__init__: load_data, then setup_ui's update_all_displays.
InitQt ==
    /\ TkIdle
    /\ RtIdle
    /\ AuxIdle
    /\ today = 1
    /\ \E file \in InitDocs :
         \E st \in {update_order_tables(St(qt_load_data(file), file), 1)} :
             /\ data = st.data
             /\ disk = st.disk
             /\ pre_table = TableRows(st.data)
    /\ last = Op("init")
    /\ steps = 0
    /\ cpOpen = FALSE
    /\ cpData = EmptyDoc
    /\ iodOpen = FALSE
    /\ iodData = EmptyDoc
    /\ iodBoxes = {}

NextQt ==
    \/ TogglePreOrderStatus
    \/ TogglePreOrderStatusNoChange
    \/ UpdateOrderTables
    \/ CheckReminders
    \/ ImmediateReminder
    \/ OpenControlPanel
    \/ CpAddShippingOrder
    \/ CpAddPreOrder
    \/ CpEditPreOrder
    \/ CpTogglePreControlStatus
    \/ CpSaveAndAccept
    \/ CpReject
    \/ CheckAndShowIncompleteOrders
    \/ IodConfirmOrders
    \/ IodClose
    \/ Tick

SpecQt == InitQt /\ [][NextQt]_vars

\* ============================================ Tk (daily_reminder-20250926)
\* ------------------------------------------------------------ Tk: documents
WORK_PLAN == "work_plan"
\* A key of a Python dict: a str, or an int with its decimal text.
StrKey(s) == [int |-> FALSE, text |-> s]
IntKey(s) == [int |-> TRUE, text |-> s]
\* A nested dict such as work_plan: its items in insertion order.
Item(k, v) == [key |-> k, val |-> v]
AsDict(items) == {<<items[i].key, items[i].val>> : i \in 1..Len(items)}

\* Tk order records: {"order", "remark"}, {"order", "done", "remark"},
\* {"order", "done"} or a plain string.
PyTrue == "True"
PyFalse == "False"
TkRec(o, dn, r) == [dict |-> TRUE, order |-> o, done |-> dn, remark |-> r]
TkStr(o) == [dict |-> FALSE, order |-> o, done |-> Absent, remark |-> Absent]

\* default_data as the module defines it (work_plan cut to one weekday; the
\* scalar settings are left out).
default_data ==
    [k \in {WORK_PLAN, SHIP, PRE} |->
        IF k = WORK_PLAN THEN <<Item(StrKey("0"), "todo")>> ELSE <<>>]

\* Two documents are equal as Python values.
DocEq(a, b) ==
    /\ DOMAIN a = DOMAIN b
    /\ \A k \in DOMAIN a :
          IF k = WORK_PLAN THEN AsDict(a[k]) = AsDict(b[k]) ELSE AsMap(a[k]) = AsMap(b[k])

\* --------------------------------------------------------------- Tk: JSON
\* json.dump writes every dict key as a string: an int key as its decimal text.
DumpDict(items) == [i \in 1..Len(items) |-> Item(StrKey(items[i].key.text), items[i].val)]
json_dump(d) == [k \in DOMAIN d |-> IF k = WORK_PLAN THEN DumpDict(d[k]) ELSE d[k]]

\* json.load builds a dict from the members of an object: a repeated name
\* keeps its first place and takes the last value.
RECURSIVE LoadDict(_, _)
LoadDict(members, acc) ==
    IF members = <<>> THEN acc
    ELSE LET Store(m, hit) ==
                 IF hit = {} THEN LoadDict(Tail(members), Append(acc, m))
                 ELSE LoadDict(Tail(members),
                               [i \in 1..Len(acc) |-> IF i \in hit THEN m ELSE acc[i]])
             Member(m) == Store(m, {i \in 1..Len(acc) : acc[i].key = m.key})
         IN  Member(Head(members))
json_load(text) == [k \in DOMAIN text |-> IF k = WORK_PLAN THEN LoadDict(text[k], <<>>) ELSE text[k]]

\* ---------------------------------------------------- Tk: data.json on disk
NoText == [none |-> TRUE]
FileMissing == [kind |-> "missing", text |-> NoText]
\* not decodable as JSON (also a file cut short while it was written)
FileCorrupt == [kind |-> "corrupt", text |-> NoText]
\* valid JSON that is no object, such as []
FileArray == [kind |-> "array", text |-> NoText]
FileOf(text) == [kind |-> "object", text |-> text]

\* Mutant: load_data ignores the file.
tk_load_data_defaults(file, dflt) == [data |-> dflt, alias |-> DOMAIN dflt, defaults |-> TRUE]

\* load_data(): the document returned, the top-level keys whose value is the
\* object default_data holds (data[key] = value, and the shallow
\* default_data.copy()), and whether the copy of default_data was returned.
\* A JSON value that is no object ends in the except branch (TypeError).
tk_load_data(file, dflt) ==
    IF file.kind = "object"
    THEN LET Merged(loaded) ==
                 [data |-> [k \in (DOMAIN loaded) \cup (DOMAIN dflt) |->
                               IF k \in DOMAIN loaded THEN loaded[k] ELSE dflt[k]],
                  alias |-> (DOMAIN dflt) \ (DOMAIN loaded),
                  defaults |-> FALSE]
         IN  Merged(json_load(file.text))
    ELSE [data |-> dflt, alias |-> DOMAIN dflt, defaults |-> TRUE]

\* What can happen inside save_data: all goes well; shutil.copy or open raises
\* PermissionError; json.dump raises another error after open truncated the file.
SaveOutcomes == {"ok", "copy_denied", "open_denied", "dump_failed"}

\* Mutant: save_data writes data.json without copying it to the backup first.
tk_save_data_nobackup(d, file, backup, outcome) ==
    [file |-> CASE outcome = "ok" -> FileOf(json_dump(d))
                [] outcome = "dump_failed" -> FileCorrupt
                [] OTHER -> file,
     backup |-> backup,
     raised |-> outcome = "dump_failed"]

\* save_data(d): data.json and data.json.backup afterwards, and whether an
\* exception leaves save_data. PermissionError is handled; for any other error
\* the clause "except json.JSONEncodeError" is evaluated, and the json module
\* has no such name: AttributeError leaves save_data.
tk_save_data(d, file, backup, outcome) ==
    [file |-> CASE outcome = "ok" -> FileOf(json_dump(d))
                [] outcome = "dump_failed" -> FileCorrupt
                [] OTHER -> file,
     backup |-> IF file.kind # "missing" /\ outcome # "copy_denied" THEN file ELSE backup,
     raised |-> outcome = "dump_failed"]

\* ------------------------------------------------------------ Tk: handlers
TkOp(name, outcome, mutated) ==
    [op |-> name, save |-> outcome, before |-> tkFile, mutated |-> mutated]

TkStep == tkSteps < MaxSteps /\ tkSteps' = tkSteps + 1

\* self.data[key] is changed in place: default_data changes with it when
\* both hold the same object.
TkPut(key, c) ==
    [data |-> Put(tkData, key, c),
     dflt |-> IF key \in tkAlias THEN Put(tkDefault, key, c) ELSE tkDefault]

TkWithinBound(d) == CountOrders(Coll(d, SHIP)) + CountOrders(Coll(d, PRE)) <= MaxOrders

\* The handler returns before save_data.
TkReturn(m, name) ==
    /\ tkData' = m.data
    /\ tkDefault' = m.dflt
    /\ tkLast' = TkOp(name, "none", m.data)
    /\ UNCHANGED <<tkAlias, tkFile, tkBackup>>

\* save_data(self.data), then refresh_order_tables (self.data = load_data())
\* unless an exception left save_data and the handler's except caught it.
TkSaveAndRefresh(m, name) ==
    /\ TkWithinBound(m.data)
    /\ \E outcome \in SaveOutcomes :
       \E sv \in {tk_save_data(m.data, tkFile, tkBackup, outcome)} :
       \E ld \in {tk_load_data(sv.file, m.dflt)} :
           /\ outcome = "copy_denied" => tkFile.kind # "missing"
           /\ tkFile' = sv.file
           /\ tkBackup' = sv.backup
           /\ tkDefault' = m.dflt
           /\ tkData' = IF sv.raised THEN m.data ELSE ld.data
           /\ tkAlias' = IF sv.raised THEN tkAlias ELSE ld.alias
           /\ tkLast' = TkOp(name, outcome, m.data)

\* The record add_order appends.
TkNewOrder(is_shipping, o, remark) ==
    IF is_shipping THEN TkRec(o, Absent, remark) ELSE TkRec(o, PyFalse, remark)

\* any((item == o) or (isinstance(item, dict) and item.get("order") == o) ...)
TkIsDuplicate(lst, o) ==
    \E i \in 1..Len(lst) : lst[i].order = o

\* DailyReminderApp.add_order
TkAddOrder ==
    /\ UNCHANGED <<qtVars, rtVars, auxVars>>
    /\ TkStep
    /\ \E is_shipping \in BOOLEAN, d \in IsoDates, o \in OrderNums, remark \in Remarks :
       \E key \in {IF is_shipping THEN SHIP ELSE PRE} :
       \E c \in {SetDefault(Coll(tkData, key), d)} :
           IF TkIsDuplicate(GetList(c, d), o)
           THEN TkReturn(TkPut(key, c), "add_order")
           ELSE TkSaveAndRefresh(
                    TkPut(key, SetList(c, d, Append(GetList(c, d), TkNewOrder(is_shipping, o, remark)))),
                    "add_order")

\* DailyReminderApp.del_order with one row selected and the question confirmed.
TkDelOrder ==
    /\ UNCHANGED <<qtVars, rtVars, auxVars>>
    /\ TkStep
    /\ \E is_shipping \in BOOLEAN, d \in IsoDates, idx \in 1..MaxOrders :
       \E key \in {IF is_shipping THEN SHIP ELSE PRE} :
       \E arr \in {GetList(Coll(tkData, key), d)} :
           /\ idx <= Len(arr)
           /\ TkSaveAndRefresh(
                  TkPut(key, IF Len(arr) = 1 THEN DelKey(Coll(tkData, key), d)
                             ELSE SetList(Coll(tkData, key), d, RemoveAt(arr, idx))),
                  "del_order")

\* The record a double click leaves.
TkToggled(item) ==
    IF item.dict
    THEN [item EXCEPT !.done = IF GetF(item, "done", PyFalse) = PyTrue THEN PyFalse ELSE PyTrue]
    ELSE TkRec(item.order, PyTrue, Absent)

\* DailyReminderApp.on_pre_order_double_click on a row of the table.
TkPreOrderDoubleClick ==
    /\ UNCHANGED <<qtVars, rtVars, auxVars>>
    /\ TkStep
    /\ \E date_str \in Keys(Coll(tkData, PRE)), idx \in 1..MaxOrders :
       \E arr \in {GetList(Coll(tkData, PRE), date_str)} :
           /\ idx <= Len(arr)
           /\ TkSaveAndRefresh(
                  TkPut(PRE, SetList(Coll(tkData, PRE), date_str,
                                     [arr EXCEPT ![idx] = TkToggled(arr[idx])])),
                  "toggle")

\* The Tk membership test "order not in data[key][date_iso]": a list item
\* equals the string only if it is that plain string.
tk_row_is_new(lst, order) == ~\E i \in 1..Len(lst) : ~lst[i].dict /\ lst[i].order = order

\* import_orders_from_excel (Tk) over the rows of the sheets: [data, count].
RECURSIVE tk_import_orders_from_excel(_, _, _)
tk_import_orders_from_excel(d, rows, count) ==
    IF rows = <<>> THEN [data |-> d, count |-> count]
    ELSE LET row == Head(rows)
             Insert(key, date_iso, c) ==
                 IF tk_row_is_new(GetList(c, date_iso), row.order)
                 THEN tk_import_orders_from_excel(
                          Put(d, key, SetList(c, date_iso, Append(GetList(c, date_iso), TkStr(row.order)))),
                          Tail(rows), count + 1)
                 ELSE tk_import_orders_from_excel(Put(d, key, c), Tail(rows), count)
             Row(key, date_iso) ==
                 IF row.date = "" \/ date_iso = "" \/ row.order = ""
                 THEN tk_import_orders_from_excel(d, Tail(rows), count)
                 ELSE Insert(key, date_iso, SetDefault(Coll(d, key), date_iso))
         IN  Row(RowKey(row), ParseExcelDate(row.date))

\* The import changes the collections in place.
TkImported(r) ==
    [data |-> r.data,
     dflt |-> [k \in DOMAIN tkDefault |-> IF k \in tkAlias THEN r.data[k] ELSE tkDefault[k]]]

\* DailyReminderApp.manual_import_excel
TkManualImportExcel ==
    /\ UNCHANGED <<qtVars, rtVars, auxVars>>
    /\ TkStep
    /\ \E rows \in ExcelSheets :
       \E r \in {tk_import_orders_from_excel(tkData, rows, 0)} :
           IF r.count > 0
           THEN TkSaveAndRefresh(TkImported(r), "manual_import_excel")
           ELSE TkReturn(TkImported(r), "manual_import_excel")

\* ------------------------------------------------------------ Tk: start-up
\* What data.json may hold when the program starts.
TkInitShips ==
    {<<>>} \cup {<<[date |-> isoformat(1), orders |-> <<r>>]>> : r \in {TkRec("A", Absent, ""), TkStr("A")}}
TkInitPres ==
    {<<>>} \cup {<<[date |-> isoformat(1), orders |-> <<r>>]>> :
                    r \in {TkRec("A", PyFalse, ""), TkRec("A", PyTrue, ""), TkStr("A")}}
TkInitTexts ==
    UNION {{[k \in keys |-> CASE k = SHIP -> ship [] k = PRE -> pre [] OTHER -> <<Item(StrKey("0"), "done")>>] :
               ship \in TkInitShips, pre \in TkInitPres} :
           keys \in {{WORK_PLAN, SHIP, PRE}, {WORK_PLAN, PRE}, {WORK_PLAN, SHIP}, {SHIP, PRE}, {}}}
TkInitFiles == {FileMissing, FileCorrupt, FileArray} \cup {FileOf(t) : t \in TkInitTexts}

\* DailyReminderApp.__init__: self.data = load_data()
InitTk ==
    /\ QtIdle
    /\ RtIdle
    /\ AuxIdle
    /\ tkFile \in TkInitFiles
    /\ tkBackup = FileMissing
    /\ tkDefault = default_data
    /\ \E ld \in {tk_load_data(tkFile, default_data)} :
           /\ tkData = ld.data
           /\ tkAlias = ld.alias
    /\ tkLast = [op |-> "init", save |-> "none", before |-> tkFile, mutated |-> tkData]
    /\ tkSteps = 0

NextTk ==
    \/ TkAddOrder
    \/ TkDelOrder
    \/ TkPreOrderDoubleClick
    \/ TkManualImportExcel

SpecTk == InitTk /\ [][NextTk]_vars

\* --------------------------------------- Tk: save_data, then load_data
\* Documents handed to save_data: every default key is present; work_plan has
\* up to two items whose keys are strings or ints.
RtKeys == {StrKey("0"), StrKey("1"), IntKey("0")}
RtWorkPlans ==
    {<<>>}
    \cup {<<Item(k, v)>> : k \in RtKeys, v \in {"x", "y"}}
    \cup {<<Item(ks[1], "x"), Item(ks[2], "y")>> : ks \in {p \in RtKeys \X RtKeys : p[1] # p[2]}}
RtDocs ==
    {[k \in {WORK_PLAN, SHIP, PRE} |-> CASE k = WORK_PLAN -> wp [] k = SHIP -> ship [] OTHER -> <<>>] :
        wp \in RtWorkPlans, ship \in TkInitShips}

RtAt(at, outcome) == [at |-> at, save |-> outcome]

InitRt ==
    /\ QtIdle
    /\ AuxIdle
    /\ tkData = EmptyDoc
    /\ tkAlias = {}
    /\ tkLast = Op("idle")
    /\ tkSteps = 0
    /\ tkDefault = default_data
    /\ tkFile \in {FileMissing, FileOf(json_dump(default_data))}
    /\ tkBackup = FileMissing
    /\ rtDoc \in RtDocs
    /\ rtOut = EmptyDoc
    /\ rtPc = RtAt("start", "none")
    /\ rtRaised = FALSE

\* save_data(d)
RtSaveData ==
    /\ UNCHANGED <<qtVars, tkData, tkAlias, tkDefault, tkLast, tkSteps, rtDoc, rtOut, auxVars>>
    /\ rtPc.at = "start"
    /\ \E outcome \in SaveOutcomes :
       \E sv \in {tk_save_data(rtDoc, tkFile, tkBackup, outcome)} :
           /\ outcome = "copy_denied" => tkFile.kind # "missing"
           /\ tkFile' = sv.file
           /\ tkBackup' = sv.backup
           /\ rtPc' = RtAt("saved", outcome)
           /\ rtRaised' = sv.raised

\* load_data()
RtLoadData ==
    /\ UNCHANGED <<qtVars, tkVars, rtDoc, rtRaised, auxVars>>
    /\ rtPc.at = "saved"
    /\ rtOut' = tk_load_data(tkFile, tkDefault).data
    /\ rtPc' = RtAt("loaded", rtPc.save)

NextRt ==
    \/ RtSaveData
    \/ RtLoadData

SpecRoundTrip == InitRt /\ [][NextRt]_vars

\* ------------------------------------------------- Tk: system-tray thread
\* Largest number of window closes the user makes.
MaxCloses == 3

\* An operation on self.root, made by the thread th.
RootCall(th, op) == <<th, op>>

\* Everything but the tray is left alone.
TrFrame == UNCHANGED <<qtVars, tkVars, rtVars, tmVars, imVars, nfVars, qcVars, ctVars>>

\* DailyReminderApp.on_closing (WM_DELETE_WINDOW, main thread): minimize_to_tray,
\* or without the tray libraries a question and root.destroy().
OnClosing ==
    /\ TrFrame
    /\ trWindow = "shown"
    /\ trCount < MaxCloses
    /\ trCount' = trCount + 1
    /\ \/ /\ trAvail
          \* minimize_to_tray: withdraw, then the icon runs on a new daemon thread
          /\ \E image_ok \in BOOLEAN :
                IF image_ok
                THEN /\ trWindow' = "withdrawn"
                     /\ trIcon' = "running"
                     /\ trPc' = "menu"
                     /\ trCalls' = Append(trCalls, RootCall("main", "withdraw"))
                ELSE /\ trWindow' = "iconified"
                     /\ trCalls' = trCalls \o <<RootCall("main", "withdraw"), RootCall("main", "iconify")>>
                     /\ UNCHANGED <<trIcon, trPc>>
          /\ UNCHANGED <<trAvail, trAfter>>
       \/ /\ ~trAvail
          /\ \E result \in BOOLEAN :
                IF result
                THEN /\ trWindow' = "destroyed"
                     /\ trCalls' = Append(trCalls, RootCall("main", "destroy"))
                ELSE UNCHANGED <<trWindow, trCalls>>
          /\ UNCHANGED <<trAvail, trIcon, trPc, trAfter>>

\* The user restores the iconified window from the task bar.
RestoreWindow ==
    /\ TrFrame
    /\ trWindow = "iconified"
    /\ trWindow' = "shown"
    /\ UNCHANGED <<trAvail, trIcon, trPc, trAfter, trCalls, trCount>>

\* on_tray_show (tray thread), first try block: the icon is stopped and forgotten.
TrayShowStop ==
    /\ TrFrame
    /\ trPc = "menu"
    /\ trIcon' = "none"
    /\ trPc' = "show"
    /\ UNCHANGED <<trAvail, trWindow, trAfter, trCalls, trCount>>

\* on_tray_show, second try block: self.root.after(0, lambda: self.root.deiconify())
TrayShowAfter ==
    /\ TrFrame
    /\ trPc = "show"
    /\ trAfter' = trAfter + 1
    /\ trCalls' = Append(trCalls, RootCall("tray", "after"))
    /\ trPc' = "idle"
    /\ UNCHANGED <<trAvail, trWindow, trIcon, trCount>>

\* The Tk event loop (main thread) runs a pending deiconify callback.
RunDeiconify ==
    /\ TrFrame
    /\ trAfter > 0
    /\ trWindow # "destroyed"
    /\ trAfter' = trAfter - 1
    /\ trWindow' = "shown"
    /\ trCalls' = Append(trCalls, RootCall("main", "deiconify"))
    /\ UNCHANGED <<trAvail, trIcon, trPc, trCount>>

\* on_tray_quit (tray thread), first try block: the icon is stopped and forgotten.
TrayQuitStop ==
    /\ TrFrame
    /\ trPc = "menu"
    /\ trIcon' = "none"
    /\ trPc' = "quit"
    /\ UNCHANGED <<trAvail, trWindow, trAfter, trCalls, trCount>>

\* on_tray_quit, second try block and sys.exit(0): self.root.destroy()
TrayQuitDestroy ==
    /\ TrFrame
    /\ trPc = "quit"
    /\ trWindow' = "destroyed"
    /\ trCalls' = Append(trCalls, RootCall("tray", "destroy"))
    /\ trPc' = "exited"
    /\ UNCHANGED <<trAvail, trIcon, trAfter, trCount>>

\* ------------------------------------------ Tk: periodic reminder timer
\* Largest number of schedule_reminder calls.
MaxSchedules == 4

\* What can happen inside schedule_reminder once the pending timer is
\* cancelled: the timer is scheduled; check_trial returns False; an exception
\* (import, save_data, int(...)) reaches the except clause first.
ScheduleOutcomes == {"ok", "trial_ended", "raised"}

\* Mutant: schedule_reminder does not cancel the pending timer.
schedule_reminder_nocancel(id, pending, enabled, outcome, new_id) ==
    IF enabled /\ outcome = "ok"
    THEN [id |-> new_id, pending |-> pending \cup {new_id}]
    ELSE [id |-> id, pending |-> pending]

\* DailyReminderApp.schedule_reminder: reminder_after_id and the pending
\* callbacks afterwards; new_id is the id root.after returns.
schedule_reminder(id, pending, enabled, outcome, new_id) ==
    IF enabled /\ outcome = "ok"
    THEN [id |-> new_id, pending |-> (pending \ {id}) \cup {new_id}]
    ELSE [id |-> 0, pending |-> pending \ {id}]

\* A call of schedule_reminder on the main thread while the callbacks in
\* pending are waiting.
CallScheduleReminder(pending) ==
    /\ tmCalls < MaxSchedules
    /\ tmCalls' = tmCalls + 1
    /\ UNCHANGED tmEnabled
    /\ \E outcome \in ScheduleOutcomes :
       \E r \in {schedule_reminder(tmId, pending, tmEnabled, outcome, tmCalls + 1)} :
           /\ tmId' = r.id
           /\ tmPending' = r.pending

\* The Tk event loop runs a pending schedule_reminder callback (also inside
\* the event loop of a message box).
TimerFires ==
    /\ UNCHANGED <<qtVars, tkVars, rtVars, trVars, imVars, nfVars, qcVars, ctVars>>
    /\ trWindow # "destroyed"
    /\ UNCHANGED tmPc
    /\ \E fired \in tmPending : CallScheduleReminder(tmPending \ {fired})

\* save_all_settings up to its message box: the settings are stored in
\* self.data; an invalid interval returns before, and an exception leaving
\* save_data skips the rest of the handler.
SaveAllSettings ==
    /\ UNCHANGED <<qtVars, tkVars, rtVars, trVars, imVars, nfVars, qcVars, ctVars>>
    /\ trWindow # "destroyed"
    /\ tmPc = "idle"
    /\ tmCalls < MaxSchedules
    /\ \E path \in {"invalid_interval", "save_raised", "saved"}, chk \in BOOLEAN :
           /\ tmEnabled' = IF path = "invalid_interval" THEN tmEnabled ELSE chk
           /\ tmPc' = IF path = "saved" THEN "box" ELSE "idle"
    /\ UNCHANGED <<tmId, tmPending, tmCalls>>

\* save_all_settings after its message box: cp_window.destroy(), schedule_reminder().
SaveAllSettingsEnd ==
    /\ UNCHANGED <<qtVars, tkVars, rtVars, trVars, imVars, nfVars, qcVars, ctVars>>
    /\ trWindow # "destroyed"
    /\ tmPc = "box"
    /\ tmPc' = "idle"
    /\ CallScheduleReminder(tmPending)

\* DailyReminderApp.__init__ and run(): the window is shown; schedule_reminder
\* is called if reminders are enabled and check_trial allows.
InitTkLoop ==
    /\ QtIdle
    /\ TkIdle
    /\ RtIdle
    /\ trAvail \in BOOLEAN
    /\ trWindow = "shown"
    /\ trIcon = "none"
    /\ trPc = "idle"
    /\ trAfter = 0
    /\ trCalls = <<>>
    /\ trCount = 0
    /\ ImIdle
    /\ NfIdle
    /\ QcIdle
    /\ CtIdle
    /\ tmEnabled \in BOOLEAN
    /\ tmPc = "idle"
    /\ \E called \in BOOLEAN, outcome \in ScheduleOutcomes :
       \E r \in {schedule_reminder(0, {}, tmEnabled, outcome, 1)} :
           /\ called => tmEnabled
           /\ tmCalls = IF called THEN 1 ELSE 0
           /\ tmId = IF called THEN r.id ELSE 0
           /\ tmPending = IF called THEN r.pending ELSE {}

NextTkLoop ==
    \/ OnClosing
    \/ RestoreWindow
    \/ TrayShowStop
    \/ TrayShowAfter
    \/ RunDeiconify
    \/ TrayQuitStop
    \/ TrayQuitDestroy
    \/ TimerFires
    \/ SaveAllSettings
    \/ SaveAllSettingsEnd

SpecTkLoop == InitTkLoop /\ [][NextTkLoop]_vars

\* ------------------------------------- import_orders_from_excel on its own
\* Sheets of one or two data rows.
ImRowSet == {rows[1] : rows \in ExcelSheets}
ImSheets == ExcelSheets \cup {<<r1, r2>> : r1 \in ImRowSet, r2 \in ImRowSet}

\* Documents of the Qt program and of the Tk program before an import.
ImQtDocs ==
    {MkDoc(ship, pre) :
        ship \in {<<>>} \cup {<<[date |-> isoformat(1), orders |-> <<r>>]>> :
                                r \in {DictRec("A", Absent, "", Absent), StrRec("A")}},
        pre \in {<<>>} \cup {<<[date |-> isoformat(1), orders |-> <<r>>]>> :
                                r \in {DictRec("A", ORDER_STATUS_PENDING, "", Absent), StrRec("A")}}}
ImTkDocs == {MkDoc(ship, pre) : ship \in TkInitShips, pre \in TkInitPres}

InitImport ==
    /\ QtIdle
    /\ TkIdle
    /\ RtIdle
    /\ TrIdle
    /\ TmIdle
    /\ NfIdle
    /\ QcIdle
    /\ CtIdle
    /\ imIn \in ImQtDocs \cup ImTkDocs
    /\ imRows \in ImSheets
    /\ imOut = [data |-> EmptyDoc, count |-> 0]
    /\ imPc = "start"

\* import_orders_from_excel(data) of daily_reminder_qt61017.py
QtImport ==
    /\ UNCHANGED <<qtVars, tkVars, rtVars, trVars, tmVars, nfVars, qcVars, ctVars, imIn, imRows>>
    /\ imPc = "start"
    /\ imIn \in ImQtDocs
    /\ imOut' = qt_import_orders_from_excel(imIn, imRows, 0)
    /\ imPc' = "qt"

\* import_orders_from_excel(data) of daily_reminder-20250926.py
TkImport ==
    /\ UNCHANGED <<qtVars, tkVars, rtVars, trVars, tmVars, nfVars, qcVars, ctVars, imIn, imRows>>
    /\ imPc = "start"
    /\ imIn \in ImTkDocs
    /\ imOut' = tk_import_orders_from_excel(imIn, imRows, 0)
    /\ imPc' = "tk"

NextImport ==
    \/ QtImport
    \/ TkImport

SpecImport == InitImport /\ [][NextImport]_vars

\* --------------------------- Qt: ControlPanelDialog without a main window
\* test_control_panel: ControlPanelDialog(None, data), where data may lack the
\* order collections.
TASKS == "daily_tasks"
CpInputDocs ==
    {[k \in keys |-> CASE k = SHIP -> ship [] k = PRE -> pre [] OTHER -> <<>>] :
        keys \in {{TASKS}, {}, {TASKS, SHIP}, {TASKS, PRE}, {TASKS, SHIP, PRE}},
        ship \in {<<>>, <<[date |-> isoformat(1), orders |-> <<NewShippingOrder("A", "")>>]>>},
        pre \in {<<>>, <<[date |-> TBD, orders |-> <<StrRec("A")>>]>>}}

InitCp ==
    /\ TkIdle
    /\ RtIdle
    /\ AuxIdle
    /\ today = 1
    /\ data = EmptyDoc
    /\ disk = EmptyDoc
    /\ pre_table = {}
    /\ cpOpen = TRUE
    /\ cpData \in CpInputDocs
    /\ iodOpen = FALSE
    /\ iodData = EmptyDoc
    /\ iodBoxes = {}
    /\ last = Op("test_control_panel")
    /\ steps = 0

\* An order handler of the dialog ends without a parent: save_data(self.data).
TestLeave(cp1, op) ==
    /\ cpData' = cp1
    /\ disk' = qt_save_data(cp1)
    /\ last' = op
    /\ steps' = steps + 1
    /\ WithinBound(cp1)
    /\ UNCHANGED <<today, data, pre_table, cpOpen, iodOpen, iodData, iodBoxes>>

\* ControlPanelDialog.add_shipping_order / add_pre_order with parent None.
TestAddOrder ==
    /\ UNCHANGED <<tkVars, rtVars, auxVars>>
    /\ cpOpen
    /\ \E key \in {SHIP, PRE}, order_num \in OrderNums, remark \in Remarks :
       \E date_str \in IF key = PRE THEN IsoDates \cup {TBD} ELSE IsoDates :
       \E c \in {SetDefault(Coll(cpData, key), date_str)} :
           IF order_num \in OrderNumsOf(GetList(c, date_str))
           THEN /\ cpData' = Put(cpData, key, c)
                /\ last' = Op("add_order")
                /\ UNCHANGED <<today, data, disk, pre_table, cpOpen, iodOpen, iodData, iodBoxes, steps>>
           ELSE TestLeave(Put(cpData, key, SetList(c, date_str, Append(GetList(c, date_str),
                              IF key = PRE THEN NewPreOrder(order_num, "", remark)
                              ELSE NewShippingOrder(order_num, remark)))),
                          [Op("add_order") EXCEPT !.order = order_num, !.new_date = date_str])

\* ControlPanelDialog.save_and_accept with parent None.
TestSaveAndAccept ==
    /\ UNCHANGED <<tkVars, rtVars, auxVars>>
    /\ cpOpen
    /\ cpOpen' = FALSE
    /\ \E saved \in {save_and_accept(cpData)} :
           /\ cpData' = saved
           /\ disk' = qt_save_data(saved)
    /\ last' = Op("save_and_accept")
    /\ UNCHANGED <<today, data, pre_table, iodOpen, iodData, iodBoxes, steps>>

NextCp ==
    \/ TestAddOrder
    \/ TestSaveAndAccept

SpecCp == InitCp /\ [][NextCp]_vars

\* ------------------------------------------- Qt: timers of the main window
\* The last minute of a day of the model.
MaxClock == 9
\* Largest number of custom reminders.
MaxReminders == 1

\* check_daily_task_notifications: the early bubble is due from 30 minutes before.
HalfWindow == 30
\* check_daily_task_notifications: the prompt is due from 1 minute before ...
DueEarly == 1
\* ... until 5 minutes after the task's time.
DueLate == 5
\* check_custom_reminders: a reminder is due within 60 seconds of its time.
ReminderWindow == 1

\* task["time"] of a task without a concrete time ("" or the all-day text).
NoTime == -1
\* The HH:MM times a task or a reminder is given, in minutes.
ClockTimes == {2, 3}
\* The day under whose key the task is stored.
TaskDay == 1

\* key = task_id or f"{today_str_val}_{content}_{time_text}"
TaskKey(task, day) == IF task.id # "" THEN <<task.id, 0, 0>> ELSE <<"", day, task.time>>

\* f"{today_str_val}_{time_text}"; <<0, 0>> stands for "".
ScheduleKey(day, time) == <<day, time>>

\* The default of task_notification_state.setdefault.
NewState(day) == [date |-> day, half |-> FALSE, due |-> FALSE, schedule_key |-> <<0, 0>>]

\* Removal of the states whose date is not today.
DropExpired(state, objs, day) ==
    [k \in {j \in DOMAIN state : objs[state[j]].date = day} |-> state[k]]

\* dict[key] = value
DictSet(f, key, value) == [k \in DOMAIN f \cup {key} |-> IF k = key THEN value ELSE f[k]]

\* The state dict after the schedule-key test and the early bubble.
Rescheduled(obj, day, time, now) ==
    LET a == IF obj.schedule_key # ScheduleKey(day, time)
             THEN [date |-> day, half |-> FALSE, due |-> FALSE, schedule_key |-> ScheduleKey(day, time)]
             ELSE obj
    IN  IF 0 < time - now /\ time - now <= HalfWindow /\ ~a.half
        THEN [a EXCEPT !.half = TRUE]
        ELSE a

\* MainWindow.check_daily_task_notifications up to the call of
\* prompt_task_completion: the state table, the state dicts, and whether the
\* prompt is opened for the dict at index obj under key.
check_daily_task_notifications(state, objs, task, day, now) ==
    LET kept == DropExpired(state, objs, day)
        key == TaskKey(task, day)
        idle == [state |-> kept, objs |-> objs, prompt |-> FALSE, key |-> key, obj |-> 0]
    IN  IF day # TaskDay \/ task.completed \/ task.time = NoTime
        THEN idle
        ELSE LET objs1 == IF key \in DOMAIN kept THEN objs ELSE Append(objs, NewState(day))
                 i == IF key \in DOMAIN kept THEN kept[key] ELSE Len(objs) + 1
                 objs2 == [objs1 EXCEPT ![i] = Rescheduled(objs1[i], day, task.time, now)]
             IN  [state |-> DictSet(kept, key, i),
                  objs |-> objs2,
                  prompt |-> /\ -DueLate <= task.time - now
                             /\ task.time - now <= DueEarly
                             /\ ~objs2[i].due,
                  key |-> key,
                  obj |-> i]

\* reminder.get("daily", True), as a truth value
IsDaily(reminder) == IF reminder.daily = Absent THEN TRUE ELSE reminder.daily = "True"

\* abs(current_time.secsTo(reminder_time)) <= 60
TimeMatches(reminder, now) ==
    /\ reminder.time - now <= ReminderWindow
    /\ now - reminder.time <= ReminderWindow

\* MainWindow.check_custom_reminders: the reminders it shows a bubble for.
check_custom_reminders(list, day, now) ==
    {list[i] : i \in {j \in 1..Len(list) :
        /\ list[j].enabled
        /\ IF IsDaily(list[j])
           THEN TimeMatches(list[j], now)
           ELSE /\ list[j].specific_date # ""
                /\ fromisoformat(list[j].specific_date) = day
                /\ TimeMatches(list[j], now)}}

\* The dict CustomReminderDialog.add_reminder appends.
NewReminder(time, enabled, date_type, qdate) ==
    [time |-> time, enabled |-> enabled, date_type |-> date_type,
     specific_date |-> IF date_type = "specific" THEN isoformat(qdate) ELSE "",
     daily |-> Absent]

\* The timers whose handler is waiting in a completion prompt.
Waiting == {nfStack[i].timer : i \in 1..Len(nfStack)}

NfTaskVars == <<nfTask, nfState, nfObjs, nfStack, nfPrompts>>
NfReminderVars == <<crHas, crList, crDlg, crShown>>
NfFrame == UNCHANGED <<qtVars, tkVars, rtVars, trVars, tmVars, imVars, qcVars, ctVars>>

\* One minute passes.
MinutePasses ==
    /\ NfFrame
    /\ nfNow < MaxClock
    /\ nfNow' = nfNow + 1
    /\ UNCHANGED <<nfDay, NfTaskVars, NfReminderVars>>

\* Midnight passes.
Midnight ==
    /\ NfFrame
    /\ nfNow = MaxClock
    /\ nfDay < MaxDay
    /\ nfDay' = nfDay + 1
    /\ nfNow' = 0
    /\ UNCHANGED <<NfTaskVars, NfReminderVars>>

\* The handler runs for the timer; if it opens the prompt it waits in msg_box.exec().
RunTaskCheck(timer) ==
    \E r \in {check_daily_task_notifications(nfState, nfObjs, nfTask, nfDay, nfNow)} :
        /\ nfState' = r.state
        /\ nfObjs' = r.objs
        /\ nfStack' = IF r.prompt
                      THEN Append(nfStack, [timer |-> timer, key |-> r.key, obj |-> r.obj])
                      ELSE nfStack
        /\ nfPrompts' = IF r.prompt THEN nfPrompts + 1 ELSE nfPrompts
        /\ UNCHANGED <<nfDay, nfNow, nfTask>>

\* task_check_timer.timeout: check_daily_task_notifications. A QTimer whose
\* slot has not returned does not fire again.
TaskTimerFires ==
    /\ NfFrame
    /\ "task" \notin Waiting
    /\ RunTaskCheck("task")
    /\ UNCHANGED NfReminderVars

\* reminder_timer.timeout: check_reminders with no sheet to import.
ReminderTimerFires ==
    /\ NfFrame
    /\ "reminder" \notin Waiting
    /\ crShown' = crShown \cup {<<m, nfDay>> : m \in check_custom_reminders(crList, nfDay, nfNow)}
    /\ RunTaskCheck("reminder")
    /\ UNCHANGED <<crHas, crList, crDlg>>

\* The user answers the innermost completion prompt: prompt_task_completion
\* returns (mark_task_completed on Yes), then state["due"] = True and
\* task_notification_state[key] = state.
PromptAnswered ==
    /\ NfFrame
    /\ nfStack # <<>>
    /\ \E yes \in BOOLEAN :
       \E f \in {nfStack[Len(nfStack)]} :
           /\ nfTask' = IF yes THEN [nfTask EXCEPT !.completed = TRUE] ELSE nfTask
           /\ nfObjs' = [nfObjs EXCEPT ![f.obj].due = TRUE]
           /\ nfState' = DictSet(nfState, f.key, f.obj)
           /\ nfStack' = SubSeq(nfStack, 1, Len(nfStack) - 1)
    /\ UNCHANGED <<nfDay, nfNow, nfPrompts, NfReminderVars>>

\* MainWindow.open_custom_reminder_settings: CustomReminderDialog(self, self.data)
\* takes data.copy(), which shares the list of reminders if there is one.
OpenCustomReminderSettings ==
    /\ NfFrame
    /\ nfStack = <<>>
    /\ ~crDlg.open
    /\ crDlg' = [open |-> TRUE, shared |-> crHas, list |-> crList]
    /\ UNCHANGED <<nfDay, nfNow, NfTaskVars, crHas, crList, crShown>>

\* CustomReminderDialog.add_reminder
AddReminder ==
    /\ NfFrame
    /\ nfStack = <<>>
    /\ crDlg.open
    /\ Len(crDlg.list) < MaxReminders
    /\ \E time \in ClockTimes, enabled \in BOOLEAN, date_type \in {"daily", "specific"}, qdate \in Days :
       \E new \in {Append(crDlg.list, NewReminder(time, enabled, date_type, qdate))} :
           /\ crDlg' = [crDlg EXCEPT !.list = new]
           /\ crList' = IF crDlg.shared THEN new ELSE crList
    /\ UNCHANGED <<nfDay, nfNow, NfTaskVars, crHas, crShown>>

\* The dialog is accepted: self.data = dialog.get_data(), save_data(self.data).
AcceptCustomReminders ==
    /\ NfFrame
    /\ nfStack = <<>>
    /\ crDlg.open
    /\ crList' = crDlg.list
    /\ crHas' = (crHas \/ crDlg.list # <<>>)
    /\ crDlg' = [open |-> FALSE, shared |-> FALSE, list |-> <<>>]
    /\ UNCHANGED <<nfDay, nfNow, NfTaskVars, crShown>>

\* The dialog is closed without accepting.
RejectCustomReminders ==
    /\ NfFrame
    /\ nfStack = <<>>
    /\ crDlg.open
    /\ crDlg' = [open |-> FALSE, shared |-> FALSE, list |-> <<>>]
    /\ UNCHANGED <<nfDay, nfNow, NfTaskVars, crHas, crList, crShown>>

\* MainWindow.__init__ and start_reminder_timer with reminders enabled: both
\* timers run, no notification state, one task stored under today's date.
InitQtTimers ==
    /\ QtIdle
    /\ TkIdle
    /\ RtIdle
    /\ TrIdle
    /\ TmIdle
    /\ ImIdle
    /\ QcIdle
    /\ CtIdle
    /\ nfDay = 1
    /\ nfNow = 0
    /\ nfTask \in [id : {"", "t1"}, time : ClockTimes \cup {NoTime}, completed : BOOLEAN]
    /\ nfState = <<>>
    /\ nfObjs = <<>>
    /\ nfStack = <<>>
    /\ nfPrompts = 0
    /\ crHas \in BOOLEAN
    /\ crList = <<>>
    /\ crDlg = [open |-> FALSE, shared |-> FALSE, list |-> <<>>]
    /\ crShown = {}

NextQtTimers ==
    \/ MinutePasses
    \/ Midnight
    \/ TaskTimerFires
    \/ ReminderTimerFires
    \/ PromptAnswered
    \/ OpenCustomReminderSettings
    \/ AddReminder
    \/ AcceptCustomReminders
    \/ RejectCustomReminders

SpecQtTimers == InitQtTimers /\ [][NextQtTimers]_vars

\* ------------------------------------- Qt: the reminder timer on the clock
\* The last minute of a day.
DayEnd == 1439
\* The latest minute of day 1 at which the application starts.
MaxStart == 2
\* The values of reminder_interval the control panel offers, in minutes.
Intervals == {30, 60, 120, 240}
\* The times of the daily reminders: 09:00 and 09:15, in minutes.
DailyTimes == {540, 555}

\* A minute passes and reminder_timer has not timed out yet.
ClockMinute ==
    /\ UNCHANGED <<qtVars, tkVars, rtVars, trVars, tmVars, imVars, ctVars>>
    /\ qcLeft > 0
    /\ nfNow < DayEnd
    /\ nfNow' = nfNow + 1
    /\ qcLeft' = qcLeft - 1
    /\ UNCHANGED <<nfDay, NfTaskVars, NfReminderVars, qcInterval>>

\* The minute before midnight passes.
ClockMidnight ==
    /\ UNCHANGED <<qtVars, tkVars, rtVars, trVars, tmVars, imVars, ctVars>>
    /\ qcLeft > 0
    /\ nfNow = DayEnd
    /\ nfDay < MaxDay
    /\ nfDay' = nfDay + 1
    /\ nfNow' = 0
    /\ qcLeft' = qcLeft - 1
    /\ UNCHANGED <<NfTaskVars, NfReminderVars, qcInterval>>

\* reminder_timer times out after reminder_interval minutes: check_reminders
\* runs check_custom_reminders and check_daily_task_notifications, and the
\* timer starts its next interval.
ReminderTimeout ==
    /\ UNCHANGED <<qtVars, tkVars, rtVars, trVars, tmVars, imVars, ctVars>>
    /\ qcLeft = 0
    /\ qcLeft' = qcInterval
    /\ crShown' = crShown \cup {<<m, nfDay>> : m \in check_custom_reminders(crList, nfDay, nfNow)}
    /\ RunTaskCheck("reminder")
    /\ UNCHANGED <<crHas, crList, crDlg, qcInterval>>

\* The application starts on day 1 with reminder_enabled true and one enabled
\* daily reminder: start_reminder_timer starts reminder_timer with the interval.
InitQtClock ==
    /\ QtIdle
    /\ TkIdle
    /\ RtIdle
    /\ TrIdle
    /\ TmIdle
    /\ ImIdle
    /\ CtIdle
    /\ nfDay = 1
    /\ nfNow \in 0..MaxStart
    /\ nfTask = [id |-> "", time |-> NoTime, completed |-> FALSE]
    /\ nfState = <<>>
    /\ nfObjs = <<>>
    /\ nfStack = <<>>
    /\ nfPrompts = 0
    /\ crHas = TRUE
    /\ \E time \in DailyTimes : crList = <<NewReminder(time, TRUE, "daily", 1)>>
    /\ crDlg = [open |-> FALSE, shared |-> FALSE, list |-> <<>>]
    /\ crShown = {}
    /\ qcInterval \in Intervals
    /\ qcLeft = qcInterval

NextQtClock ==
    \/ ClockMinute
    \/ ClockMidnight
    \/ ReminderTimeout

SpecQtClock == InitQtClock /\ [][NextQtClock]_vars

\* ------------------------------------------- Tk: custom reminder timers
\* Largest number of custom reminders.
MaxTkReminders == 2
\* Largest timer id handed out before the handlers stop.
MaxTimerId == 4

\* The indices i for which schedule_custom_reminders calls
\* schedule_custom_reminder and the call returns a timer id: the reminder is
\* enabled and is not one for a specific date that has passed.
Scheduled(list, passed) ==
    {i \in 1..Len(list) :
        /\ list[i].enabled
        /\ ~(list[i].date_type = "specific" /\ i \in passed)}

\* The id root.after returns for index i: ids are handed out in index order.
TimerIdOf(list, passed, next, i) ==
    next + Cardinality({j \in Scheduled(list, passed) : j < i})

\* DailyReminderApp.schedule_custom_reminders: every recorded timer is
\* cancelled, the record is cleared, and each enabled reminder gets the id
\* schedule_custom_reminder returns, None (0) if it returns none.
schedule_custom_reminders(list, timers, pending, next, passed) ==
    LET recorded == {timers[i] : i \in DOMAIN timers}
    IN  [timers |-> [i \in {j \in 1..Len(list) : list[j].enabled} |->
                        IF i \in Scheduled(list, passed)
                        THEN TimerIdOf(list, passed, next, i)
                        ELSE 0],
         pending |-> {p \in pending : p.id \notin recorded} \cup
                     {[id |-> TimerIdOf(list, passed, next, i), index |-> i] :
                         i \in Scheduled(list, passed)},
         next |-> next + Cardinality(Scheduled(list, passed))]

CtFrame == UNCHANGED <<qtVars, tkVars, rtVars, trVars, tmVars, imVars, nfVars, qcVars>>

\* The list is changed to new and save_data(self.data) is called; if it
\* returns, schedule_custom_reminders runs, else the exception ends the handler.
ReminderChanged(name, new) ==
    \E outcome \in SaveOutcomes :
    \E raised \in {tk_save_data(default_data, FileMissing, FileMissing, outcome).raised} :
        /\ ctList' = new
        /\ ctLast' = [op |-> name, raised |-> raised]
        /\ IF raised
           THEN UNCHANGED <<ctTimers, ctPending, ctNextId>>
           ELSE \E passed \in SUBSET (1..Len(new)) :
                \E r \in {schedule_custom_reminders(new, ctTimers, ctPending, ctNextId, passed)} :
                    /\ ctTimers' = r.timers
                    /\ ctPending' = r.pending
                    /\ ctNextId' = r.next

\* add_reminder of open_custom_reminder_settings
TkAddReminder ==
    /\ CtFrame
    /\ ctNextId <= MaxTimerId
    /\ Len(ctList) < MaxTkReminders
    /\ \E enabled \in BOOLEAN, date_type \in {"daily", "specific"} :
           ReminderChanged("add_reminder",
                           Append(ctList, [enabled |-> enabled, date_type |-> date_type]))

\* delete_reminder of open_custom_reminder_settings, the question answered yes
TkDeleteReminder ==
    /\ CtFrame
    /\ ctNextId <= MaxTimerId
    /\ \E index \in 1..Len(ctList) :
           ReminderChanged("delete_reminder", RemoveAt(ctList, index))

\* toggle_reminder of open_custom_reminder_settings
TkToggleReminder ==
    /\ CtFrame
    /\ ctNextId <= MaxTimerId
    /\ \E index \in 1..Len(ctList) :
           ReminderChanged("toggle_reminder",
                           [ctList EXCEPT ![index].enabled = ~ctList[index].enabled])

\* A pending timer fires: DailyReminderApp.trigger_custom_reminder shows the
\* bubble; a daily reminder is scheduled again under the same index, the
\* record of any other is deleted.
TriggerCustomReminder ==
    /\ CtFrame
    /\ ctNextId <= MaxTimerId
    /\ \E p \in ctPending :
         /\ ctLast' = [op |-> "trigger_custom_reminder", raised |-> FALSE]
         /\ IF p.index <= Len(ctList)
            THEN IF ctList[p.index].date_type = "daily"
                 THEN /\ ctTimers' = DictSet(ctTimers, p.index, ctNextId)
                      /\ ctPending' = (ctPending \ {p}) \cup {[id |-> ctNextId, index |-> p.index]}
                      /\ ctNextId' = ctNextId + 1
                 ELSE /\ ctTimers' = [i \in DOMAIN ctTimers \ {p.index} |-> ctTimers[i]]
                      /\ ctPending' = ctPending \ {p}
                      /\ UNCHANGED ctNextId
            ELSE /\ ctPending' = ctPending \ {p}
                 /\ UNCHANGED <<ctTimers, ctNextId>>
    /\ UNCHANGED ctList

\* DailyReminderApp.run with the default document: no custom reminder, and
\* schedule_custom_reminders records no timer.
InitTkReminders ==
    /\ QtIdle
    /\ TkIdle
    /\ RtIdle
    /\ TrIdle
    /\ TmIdle
    /\ ImIdle
    /\ NfIdle
    /\ QcIdle
    /\ ctList = <<>>
    /\ ctTimers = <<>>
    /\ ctPending = {}
    /\ ctNextId = 1
    /\ ctLast = [op |-> "run", raised |-> FALSE]

NextTkReminders ==
    \/ TkAddReminder
    \/ TkDeleteReminder
    \/ TkToggleReminder
    \/ TriggerCustomReminder

SpecTkReminders == InitTkReminders /\ [][NextTkReminders]_vars

\* --------------------------- Qt: order handlers on documents without duplicates
\* The text pre_control_table shows for the key "TBD".
TbdText == "<to be decided>"
\* ControlPanelDialog.convert_original_date_to_display
convert_original_date_to_display(original_date) ==
    IF original_date = TBD THEN TbdText ELSE original_date
\* ControlPanelDialog.convert_display_date_to_original
convert_display_date_to_original(display_date) ==
    IF display_date = TbdText THEN TBD ELSE display_date

\* find_order_in_data(order_num, date_str) with a date: only the list under
\* date_str is searched if that key exists, else every date in insertion order.
find_order_in_date(d, order_num, date_str) ==
    IF date_str # "" /\ HasKey(Coll(d, PRE), date_str)
    THEN [date |-> IF FirstIndex(GetList(Coll(d, PRE), date_str), order_num) # 0 THEN date_str ELSE "",
          index |-> FirstIndex(GetList(Coll(d, PRE), date_str), order_num)]
    ELSE find_order_in_data(d, order_num)

\* One round of the deletion loop of delete_pre_order for the table row
\* (date, order number): orders.pop(order_index), an emptied date is deleted.
DeleteRow(d, row) ==
    LET found == find_order_in_date(d, row[2],
                     convert_display_date_to_original(convert_original_date_to_display(row[1])))
        popped == RemoveAt(GetList(Coll(d, PRE), found.date), found.index)
    IN  IF found.index = 0 THEN d
        ELSE IF popped = <<>> THEN Put(d, PRE, DelKey(Coll(d, PRE), found.date))
        ELSE Put(d, PRE, SetList(Coll(d, PRE), found.date, popped))

RECURSIVE DeleteRows(_, _)
DeleteRows(d, rows) ==
    IF rows = {} THEN d
    ELSE LET row == CHOOSE r \in rows : TRUE
         IN  DeleteRows(DeleteRow(d, row), rows \ {row})

\* ControlPanelDialog.delete_pre_order with the question answered yes: the
\* dialog's document afterwards. With no box ticked the handler returns right
\* after it has looked at the selection.
delete_pre_order(d, ticked, selected) ==
    IF ticked = {} THEN d ELSE DeleteRows(d, ticked)

\* ControlPanelDialog.delete_pre_order
CpDeletePreOrder ==
    /\ UNCHANGED <<tkVars, rtVars, auxVars>>
    /\ Step
    /\ cpOpen
    /\ \E ticked \in SUBSET TableRows(cpData), selected \in TableRows(cpData) :
       \E cp1 \in {delete_pre_order(cpData, ticked, selected)} :
       \E op \in {[Op("delete_pre_order") EXCEPT !.row = selected, !.ticked = ticked]} :
           IF cp1 # cpData THEN CpLeave(cp1, op) ELSE CpReturn(cp1, op)
    /\ UNCHANGED <<today, cpOpen, iodOpen, iodData, iodBoxes>>

\* ControlPanelDialog.edit_shipping_order for the selected table row and the
\* date of the date widget.
CpEditShippingOrder ==
    /\ UNCHANGED <<tkVars, rtVars, auxVars>>
    /\ Step
    /\ cpOpen
    /\ \E date_str \in IsoDates, order_num \in OrderNums, remark \in Remarks :
       \E orders \in {GetList(Coll(cpData, SHIP), date_str)} :
       \E row \in 1..Len(orders) :
           CpLeave(Put(cpData, SHIP, SetList(Coll(cpData, SHIP), date_str,
                                             [orders EXCEPT ![row] = NewShippingOrder(order_num, remark)])),
                   [Op("edit_shipping_order") EXCEPT !.order = order_num, !.new_date = date_str])
    /\ UNCHANGED <<today, cpOpen, iodOpen, iodData, iodBoxes>>

\* No date key holds two records with the same order number.
NoDuplicates(d) ==
    \A k \in {SHIP, PRE} : \A i \in 1..Len(Coll(d, k)) :
        \A a, b \in 1..Len(Coll(d, k)[i].orders) :
            get_order_number(Coll(d, k)[i].orders[a]) = get_order_number(Coll(d, k)[i].orders[b]) => a = b

\* The records of the initial documents.
UniqueRecs ==
    {DictRec(o, st, "", Absent) : o \in OrderNums, st \in {ORDER_STATUS_PENDING, ORDER_STATUS_DONE}}
    \cup {StrRec("A")}
\* Collections of one or two dates with one or two records.
UniqueColls(dates) ==
    {<<>>}
    \cup {<<[date |-> d, orders |-> l]>> : d \in dates, l \in UNION {[1..n -> UniqueRecs] : n \in 1..2}}
    \cup UNION {{<<[date |-> d1, orders |-> <<r1>>], [date |-> d2, orders |-> <<r2>>]>> :
                    d2 \in dates \ {d1}, r1 \in UniqueRecs, r2 \in UniqueRecs} : d1 \in dates}
\* data.json files in which no date holds an order number twice.
UniqueDocs ==
    {doc \in {MkDoc(ship, pre) : ship \in UniqueColls(IsoDates), pre \in UniqueColls(IsoDates \cup {TBD})} :
        WithinBound(doc) /\ NoDuplicates(doc)}

\* MainWindow.__init__ on such a file: load_data, then update_all_displays.
InitQtUnique ==
    /\ TkIdle
    /\ RtIdle
    /\ AuxIdle
    /\ today = 1
    /\ \E file \in UniqueDocs :
         \E st \in {update_order_tables(St(qt_load_data(file), file), 1)} :
             /\ data = st.data
             /\ disk = st.disk
             /\ pre_table = TableRows(st.data)
    /\ cpOpen = FALSE
    /\ cpData = EmptyDoc
    /\ iodOpen = FALSE
    /\ iodData = EmptyDoc
    /\ iodBoxes = {}
    /\ last = Op("init")
    /\ steps = 0

NextQtUnique ==
    \/ TogglePreOrderStatus
    \/ UpdateOrderTables
    \/ CheckReminders
    \/ OpenControlPanel
    \/ CpAddShippingOrder
    \/ CpAddPreOrder
    \/ CpEditShippingOrder
    \/ CpEditPreOrder
    \/ CpDeletePreOrder
    \/ CpTogglePreControlStatus
    \/ CpSaveAndAccept
    \/ CpReject

SpecQtUnique == InitQtUnique /\ [][NextQtUnique]_vars

\* ================================================================ claims
\* A dict record with status done under a valid ISO date on or before day t.
DueDone(r, d, t) ==
    /\ r.dict
    /\ r.status = ORDER_STATUS_DONE
    /\ d # TBD
    /\ fromisoformat(d) \in 1..t

\* The records a pass appended to shipping_orders[d].
Appended(before, after, d) ==
    SubSeq(GetList(Coll(after, SHIP), d), Len(GetList(Coll(before, SHIP), d)) + 1,
           Len(GetList(Coll(after, SHIP), d)))

AllDates(a, b) == Keys(Coll(a, SHIP)) \cup Keys(Coll(a, PRE)) \cup Keys(Coll(b, SHIP)) \cup Keys(Coll(b, PRE))

\* The step is one auto-sync pass over self.data (update_order_tables).
IsPass == last'.op = "update_order_tables"

\* C1: a pass of auto_sync_pre_to_shipping appends an order number to
\* shipping_orders[d] only if pre_shipping_orders[d] held a dict record with
\* that number and status done and d is a valid ISO date on or before today;
\* nothing is appended for paused, pending, making or legacy records, nor
\* under TBD, a future date or a malformed key.
C1_AppendOnlyDueDone ==
    [][IsPass =>
        \A d \in AllDates(data, data') :
            LET app == Appended(data, data', d)
                pre == GetList(Coll(data, PRE), d)
            IN  \A k \in 1..Len(app) :
                    \E i \in 1..Len(pre) :
                        /\ DueDone(pre[i], d, today)
                        /\ pre[i].order = app[k].order]_qtVars

\* C1 witness: a pass appended the done order A under day 2 and kept the
\* paused order B back.
C1_Witness ==
    /\ last.op = "update_order_tables"
    /\ today = 2
    /\ \E i \in 1..Len(GetList(Coll(data, SHIP), isoformat(2))) :
          LET r == GetList(Coll(data, SHIP), isoformat(2))[i]
          IN  r.order = "A" /\ r.remark = "[pre-order auto-sync]"
    /\ GetList(Coll(data, PRE), isoformat(2)) = <<DictRec("B", ORDER_STATUS_PAUSED, "", Absent)>>

\* C3: a pass is a move that loses nothing: under every date the records
\* left in pre_shipping_orders[d] are exactly the records that were not done
\* and due, in their order, and the order number of every record removed is
\* in shipping_orders[d] after the pass.
C3_PassLosesNothing ==
    [][IsPass =>
        \A d \in AllDates(data, data') :
            LET pre == GetList(Coll(data, PRE), d)
            IN  /\ GetList(Coll(data', PRE), d) = SelectSeq(pre, LAMBDA r : ~DueDone(r, d, today))
                /\ \A i \in 1..Len(pre) :
                      DueDone(pre[i], d, today) =>
                          pre[i].order \in OrderNumsOf(GetList(Coll(data', SHIP), d))]_qtVars

\* C3 witness: a pass ran on day 2, moved order A to shipping_orders and left
\* a legacy string behind.
C3_Witness ==
    /\ last.op = "update_order_tables"
    /\ today = 2
    /\ "A" \in OrderNumsOf(GetList(Coll(data, SHIP), isoformat(2)))
    /\ \E i \in 1..Len(GetList(Coll(data, PRE), isoformat(2))) :
          ~GetList(Coll(data, PRE), isoformat(2))[i].dict

\* No done record under a due date is left in pre_shipping_orders.
NoDueDone(d, t) ==
    \A i \in 1..Len(Coll(d, PRE)) :
        \A j \in 1..Len(Coll(d, PRE)[i].orders) :
            ~DueDone(Coll(d, PRE)[i].orders[j], Coll(d, PRE)[i].date, t)

\* C2: when update_order_tables returns, or toggle_pre_order_status returns
\* after the dialog was accepted, pre_shipping_orders holds no done record
\* under a date on or before today, and the order numbers of the records that
\* were done and due are in shipping_orders under their date.
C2_NoDueDoneAfterRefresh ==
    [][last'.op \in {"update_order_tables", "toggle_accepted"} =>
        /\ NoDueDone(data', today')
        /\ \A d \in Keys(Coll(data, PRE)) :
              \A i \in 1..Len(GetList(Coll(data, PRE), d)) :
                  LET r == GetList(Coll(data, PRE), d)[i]
                  IN  (DueDone(r, d, today) /\ (last'.op = "toggle_accepted" => r.order # last'.order))
                          => r.order \in OrderNumsOf(GetList(Coll(data', SHIP), d))
        /\ (last'.op = "toggle_accepted" /\ last'.status = ORDER_STATUS_DONE
                /\ fromisoformat(last'.new_date) \in 1..today)
              => last'.order \in OrderNumsOf(GetList(Coll(data', SHIP), last'.new_date))]_qtVars

\* C2 witness: the status dialog set an order to done under a date that has
\* arrived; the order is in shipping_orders and no longer a pre-order.
C2_Witness ==
    /\ last.op = "toggle_accepted"
    /\ last.status = ORDER_STATUS_DONE
    /\ fromisoformat(last.new_date) \in 1..today
    /\ last.order \in OrderNumsOf(GetList(Coll(data, SHIP), last.new_date))
    /\ last.order \notin OrderNumsOf(GetList(Coll(data, PRE), last.new_date))

NonEmpty(c) == {e \in AsMap(c) : e[2] # <<>>}
SameRecords(a, b) ==
    /\ NonEmpty(Coll(a, SHIP)) = NonEmpty(Coll(b, SHIP))
    /\ NonEmpty(Coll(a, PRE)) = NonEmpty(Coll(b, PRE))

\* C4 (as claimed): a handler that starts with data.json equal to the
\* in-memory order collections (auto-sync in update_order_tables, the status
\* toggle, the Excel import of check_reminders and immediate_reminder) ends
\* with them equal again.
\* Dates with an empty list are left out of the comparison: the same records
\* under the same dates.
C4_DiskEqualsMemory ==
    [][(SameRecords(data, disk)
          /\ last'.op \in {"update_order_tables", "toggle_accepted", "check_reminders", "immediate_reminder"})
        => SameRecords(data', disk')]_qtVars

\* C5 (as claimed): after the status dialog is accepted with status t the
\* order is a pre-shipping record with status t whose row can be opened again.
C5_AnyStatusReachable ==
    last.op = "toggle_accepted" =>
        /\ \E i \in 1..Len(GetList(Coll(data, PRE), last.new_date)) :
              LET r == GetList(Coll(data, PRE), last.new_date)[i]
              IN  r.dict /\ r.order = last.order /\ r.status = last.status
        /\ <<last.new_date, last.order>> \in pre_table

\* C5 (amended): after the status dialog is accepted with status t and a date,
\* the order is a pre-shipping record with status t under that date and its
\* row can be opened again, unless t is done and the date is on or before
\* today: then the order number is in shipping_orders under that date and no
\* done record of it is left in pre_shipping_orders.
C5_AnyStatusExceptDueDone ==
    last.op = "toggle_accepted" =>
        IF last.status = ORDER_STATUS_DONE /\ fromisoformat(last.new_date) \in 1..today
        THEN /\ last.order \in OrderNumsOf(GetList(Coll(data, SHIP), last.new_date))
             /\ \A i \in 1..Len(GetList(Coll(data, PRE), last.new_date)) :
                   LET r == GetList(Coll(data, PRE), last.new_date)[i]
                   IN  ~(r.dict /\ r.order = last.order /\ r.status = ORDER_STATUS_DONE)
        ELSE /\ \E i \in 1..Len(GetList(Coll(data, PRE), last.new_date)) :
                   LET r == GetList(Coll(data, PRE), last.new_date)[i]
                   IN  r.dict /\ r.order = last.order /\ r.status = last.status
             /\ <<last.new_date, last.order>> \in pre_table

\* C5 witness: a paused order was set to making and is still a pre-order.
C5_Witness ==
    /\ last.op = "toggle_accepted"
    /\ last.from = ORDER_STATUS_PAUSED
    /\ last.status = ORDER_STATUS_MAKING
    /\ \E i \in 1..Len(GetList(Coll(data, PRE), last.new_date)) :
          LET r == GetList(Coll(data, PRE), last.new_date)[i]
          IN  r.order = last.order /\ r.status = ORDER_STATUS_MAKING

\* Every dict record of pre_shipping_orders carries one of the four statuses.
StatusValid(d) ==
    \A i \in 1..Len(Coll(d, PRE)) :
        \A j \in 1..Len(Coll(d, PRE)[i].orders) :
            Coll(d, PRE)[i].orders[j].dict =>
                Coll(d, PRE)[i].orders[j].status \in
                    {ORDER_STATUS_PENDING, ORDER_STATUS_MAKING, ORDER_STATUS_DONE, ORDER_STATUS_PAUSED}

AllStatusValid == StatusValid(data) /\ StatusValid(disk) /\ StatusValid(cpData) /\ StatusValid(iodData)

\* C6: when every dict record of pre_shipping_orders (in the main window, in
\* the dialogs' copies and in data.json) has a status among pending, making,
\* done and paused, it is so again after add_pre_order, edit_pre_order, either
\* status toggle, confirm_orders, an import and auto-sync.
C6_StatusStaysValid == [][AllStatusValid => AllStatusValid']_qtVars

\* C6 witness: edit_pre_order rewrote a record that was in the making; the
\* record kept that status.
C6_Witness ==
    /\ last.op = "edit_pre_order"
    /\ last.from = ORDER_STATUS_MAKING
    /\ AllStatusValid
    /\ \E i \in 1..Len(GetList(Coll(cpData, PRE), last.new_date)) :
          LET r == GetList(Coll(cpData, PRE), last.new_date)[i]
          IN  r.order = last.order /\ r.status = ORDER_STATUS_MAKING /\ r.remark = "r"

\* The records of collection key under date with order number o.
TkCount(d, key, date, o) ==
    Cardinality({i \in 1..Len(GetList(Coll(d, key), date)) : GetList(Coll(d, key), date)[i].order = o})

\* C7 (as claimed): no Tk handler (add_order, an Excel import) adds a record
\* with an order number that is already present under the same date in the
\* same collection, whether the record present is a dict or a plain string.
C7_NoSecondRecord ==
    [][\A key \in {SHIP, PRE}, date \in IsoDates, o \in OrderNums :
          TkCount(tkData, key, date, o) >= 1 =>
              TkCount(tkData', key, date, o) <= TkCount(tkData, key, date, o)]_vars

\* The keys of every nested dict of d are strings.
StringKeys(d) == \A i \in 1..Len(d[WORK_PLAN]) : ~d[WORK_PLAN][i].key.int

TkJustLoaded == tkLast.op = "init" \/ tkLast.save \in {"ok", "copy_denied", "open_denied"}

\* C9 (as claimed): load_data returns a document with every key of
\* default_data, and with data.json missing or undecodable the document
\* equals the original defaults, whatever was done to documents it returned
\* before.
C9_DefaultsWhenUnreadable ==
    TkJustLoaded =>
        /\ DOMAIN default_data \subseteq DOMAIN tkData
        /\ tkFile.kind \in {"missing", "corrupt"} => DocEq(tkData, default_data)

\* C10 (as claimed): when save_data fails with PermissionError in add_order,
\* del_order or the double-click toggle, data.json keeps its content and the
\* in-memory document keeps the mutation.
C10_FailedSaveKeepsMutation ==
    (tkLast.op \in {"add_order", "del_order", "toggle"} /\ tkLast.save \in {"copy_denied", "open_denied"}) =>
        /\ tkFile = tkLast.before
        /\ DocEq(tkData, tkLast.mutated)

\* C11: save_data never lets an exception reach its caller: whatever goes wrong
\* while copying the backup or writing data.json, save_data returns normally.
C11_SaveDataReturnsNormally ==
    rtPc.at = "saved" => ~rtRaised

\* C12: after a successful save_data call made while data.json existed,
\* data.json.backup holds the content data.json had just before the call.
C12_BackupHoldsPriorContent ==
    (tkLast.save = "ok" /\ tkLast.before.kind # "missing") => tkBackup = tkLast.before

\* A handler saved successfully over an existing data.json whose content the
\* save changed.
C12_Witness ==
    /\ tkLast.save = "ok"
    /\ tkLast.before.kind = "object"
    /\ tkBackup = tkLast.before
    /\ tkFile # tkLast.before

\* C13: the handlers running on the tray thread touch the Tk root only by
\* scheduling a callback on the event loop (root.after).
C13_TrayOnlySchedules ==
    \A i \in 1..Len(trCalls) : trCalls[i][1] = "tray" => trCalls[i][2] = "after"

\* C16: at most one periodic-reminder timer is pending at any time, and when
\* reminder_enabled is false none is pending after schedule_reminder returns.
C16_AtMostOneTimer ==
    /\ [](Cardinality(tmPending) <= 1)
    /\ [][(tmCalls' # tmCalls /\ ~tmEnabled') => tmPending' = {}]_vars

\* schedule_reminder was called while a timer was pending and left a new timer
\* pending in its place.
C16_Witness ==
    /\ tmCalls >= 2
    /\ tmPc = "idle"
    /\ tmPending = {tmCalls}
    /\ tmId = tmCalls

\* A row the import is to use: a parseable date and an order number.
RowUsable(row) == fromisoformat(row.date) # 0 /\ row.order # ""
\* The collection the claim names for a row.
RowTarget(row) == IF row.typ = "" \/ row.typ \in {SHIPPING_WORD, "yubei fahuo"} THEN SHIP ELSE PRE
\* List l2 is list l1 followed by appended plain-string records, each the
\* order of a usable row of the sheet that belongs to collection k, date d.
ExtendsByRows(l1, l2, k, d) ==
    /\ Len(l1) <= Len(l2)
    /\ \A i \in 1..Len(l1) : l2[i] = l1[i]
    /\ \A i \in (Len(l1) + 1)..Len(l2) :
          /\ ~l2[i].dict
          /\ \E j \in 1..Len(imRows) :
                /\ RowUsable(imRows[j])
                /\ RowTarget(imRows[j]) = k
                /\ imRows[j].date = d
                /\ imRows[j].order = l2[i].order

\* C14: every usable row's order ends up under its ISO date in
\* shipping_orders when the type cell is empty or holds the shipping keyword,
\* in pre_shipping_orders otherwise; nothing else is added, rows that are not
\* usable change nothing, and the count is the number of records appended.
C14_ImportRouting ==
    imPc \in {"qt", "tk"} =>
        /\ \A j \in 1..Len(imRows) :
              RowUsable(imRows[j]) =>
                  imRows[j].order \in
                      OrderNumsOf(GetList(Coll(imOut.data, RowTarget(imRows[j])), imRows[j].date))
        /\ \A k \in {SHIP, PRE} : \A d \in Keys(Coll(imOut.data, k)) \cup Keys(Coll(imIn, k)) :
              ExtendsByRows(GetList(Coll(imIn, k), d), GetList(Coll(imOut.data, k), d), k, d)
        /\ (\A j \in 1..Len(imRows) : ~RowUsable(imRows[j])) => SameOrders(imIn, imOut.data)
        /\ imOut.count =
              CountOrders(Coll(imOut.data, SHIP)) + CountOrders(Coll(imOut.data, PRE))
              - CountOrders(Coll(imIn, SHIP)) - CountOrders(Coll(imIn, PRE))

\* A sheet of two rows put one order into each collection.
C14_Witness ==
    /\ imPc \in {"qt", "tk"}
    /\ imOut.count = 2
    /\ CountOrders(Coll(imOut.data, SHIP)) = CountOrders(Coll(imIn, SHIP)) + 1
    /\ CountOrders(Coll(imOut.data, PRE)) = CountOrders(Coll(imIn, PRE)) + 1

\* C15: the document save_and_accept saves holds both order collections and
\* no fewer pre-shipping or shipping orders than the dialog's working copy
\* held when save_and_accept was called.
C15_SavedDocumentComplete ==
    [][(cpOpen /\ ~cpOpen' /\ last'.op = "save_and_accept") =>
          /\ {SHIP, PRE} \subseteq DOMAIN disk'
          /\ CountOrders(Coll(disk', PRE)) >= CountOrders(Coll(cpData, PRE))
          /\ CountOrders(Coll(disk', SHIP)) >= CountOrders(Coll(cpData, SHIP))]_vars

\* A dialog opened on a document without pre_shipping_orders was given an
\* order and accepted.
C15_Witness ==
    /\ ~cpOpen
    /\ last.op = "save_and_accept"
    /\ steps > 0
    /\ TASKS \in DOMAIN disk
    /\ CountOrders(Coll(disk, SHIP)) > 0
    /\ Coll(disk, PRE) = <<>>

\* C17: when the control panel has added a pre-shipping order and called the
\* main window's update_order_tables, the main window's table shows the order.
C17_MainWindowShowsAddedOrder ==
    [][(cpOpen /\ last'.op = "add_pre_order" /\ last'.order # "") =>
          <<last'.new_date, last'.order>> \in pre_table']_vars

\* Order numbers document a holds under collection k, date d that b lacks there.
OnlyIn(a, b, k, d) == OrderNumsOf(GetList(Coll(a, k), d)) \ OrderNumsOf(GetList(Coll(b, k), d))
\* Order numbers document a holds under date d, in either collection.
NumsAt(a, d) == OrderNumsOf(GetList(Coll(a, SHIP), d)) \cup OrderNumsOf(GetList(Coll(a, PRE), d))

\* C18: orders that check_reminders imported and saved while the control panel
\* was open are still in the main window's document and in data.json after
\* the control panel is accepted.
C18_MainChangesSurviveAccept ==
    [][(cpOpen /\ ~cpOpen' /\ last.op = "check_reminders" /\ last'.op = "save_and_accept") =>
          \A k \in {SHIP, PRE} : \A d \in Keys(Coll(data, k)) :
              /\ OnlyIn(data, cpData, k, d) \subseteq NumsAt(data', d)
              /\ OnlyIn(data, cpData, k, d) \subseteq NumsAt(disk', d)]_vars

\* C19: the completion prompt of the task is opened at most once while the
\* task's time stays the same, whichever timers fire and whenever.
C19_PromptedAtMostOnce == nfPrompts <= 1

\* C20: a reminder created for a specific date is shown only on that date.
C20_SpecificDateOnly ==
    \A s \in crShown : s[1].date_type = "specific" => fromisoformat(s[1].specific_date) = s[2]

\* C21: once the minute after an enabled daily reminder's time has passed on
\* a day, the reminder has been shown on that day, whatever the interval of
\* the reminder timer and the minute the application started.
C21_DailyReminderShown ==
    \A i \in 1..Len(crList) :
        (crList[i].enabled /\ IsDaily(crList[i]) /\ nfNow > crList[i].time + ReminderWindow)
            => <<crList[i], nfDay>> \in crShown

\* C22: every pending custom-reminder timer is the one recorded in
\* custom_reminder_timers under its index and belongs to a reminder that is
\* enabled.
C22_PendingTimersEnabled ==
    \A p \in ctPending :
        /\ p.index \in DOMAIN ctTimers
        /\ ctTimers[p.index] = p.id
        /\ p.index <= Len(ctList)
        /\ ctList[p.index].enabled

\* C23: delete_pre_order with no box ticked and a row selected removes the
\* selected row's order from the pre-shipping list of the row's date.
C23_SelectedRowDeleted ==
    [][(cpOpen /\ last'.op = "delete_pre_order" /\ last'.ticked = {}) =>
          last'.row[2] \notin OrderNumsOf(GetList(Coll(cpData', PRE), last'.row[1]))]_vars

\* The records document d holds under the pre-shipping date key.
PreRecords(d, date) == {GetList(Coll(d, PRE), date)[i] : i \in 1..Len(GetList(Coll(d, PRE), date))}

\* C24: edit_pre_order and toggle_pre_control_status leave every record
\* other than the one of the row acted on (its order number under its date)
\* as it was, under the date it was.
C24_OnlyTheRowChanges ==
    [][(cpOpen /\ last'.op \in {"edit_pre_order", "toggle_pre_control_status"} /\ last'.row # <<>>) =>
          \A date \in Keys(Coll(cpData, PRE)) : \A r \in PreRecords(cpData, date) :
              (date # last'.row[1] \/ get_order_number(r) # last'.row[2])
                  => r \in PreRecords(cpData', date)]_vars

\* The records document d holds under the shipping date key.
ShipRecords(d, date) == {GetList(Coll(d, SHIP), date)[i] : i \in 1..Len(GetList(Coll(d, SHIP), date))}

\* C25: when update_order_tables migrates a done pre-shipping record, the
\* shipping record created for it has the same order number, remark and
\* work_order.
C25_MigratedRecordCopied ==
    [][last'.op = "update_order_tables" =>
          \A date \in Keys(Coll(data, PRE)) : \A r \in PreRecords(data, date) :
              (/\ r.dict
               /\ r \notin PreRecords(data', date)
               /\ get_order_number(r) \notin OrderNumsOf(GetList(Coll(data, SHIP), date)))
                  => \E n \in ShipRecords(data', date) :
                         /\ get_order_number(n) = get_order_number(r)
                         /\ GetF(n, "remark", "") = GetF(r, "remark", "")
                         /\ GetF(n, "work_order", "") = GetF(r, "work_order", "")]_vars

\* C26: no date key of the order collections in memory, in the control
\* panel or on disk holds two records with the same order number.
C26_OrderNumbersUnique ==
    /\ NoDuplicates(data)
    /\ NoDuplicates(disk)
    /\ cpOpen => NoDuplicates(cpData)

====
